---------------------------- MODULE Spec2Model ----------------------------
(***************************************************************************)
(* Year-in-pixels backend: the wallpaper renderer (layout, day             *)
(* classification, rasteriser, PNG encoder) and the wallpaper cache with   *)
(* the HTTP handlers that read and invalidate it.                          *)
(*                                                                         *)
(* Conventions.                                                            *)
(*  - A Python value whose type matters is a tagged record: PyNone,       *)
(*    PyStr(s), PyInt(n), PyBool(b); a string s is a sequence of           *)
(*    one-character strings, e.g. <<"#","0","d",...>>.                     *)
(*  - A colour is an RGB triple <<r, g, b>> of 0..255.                     *)
(*  - Python's float expressions are evaluated in exact integer            *)
(*    arithmetic; where the IEEE-754 double result of the source           *)
(*    expression falls on the other side of a decimal tie than             *)
(*    round-half-even, the inputs are listed in an explicit table.         *)
(***************************************************************************)
EXTENDS Integers, Sequences, FiniteSets, TLC

\* Python values whose type the source inspects are tagged records.
PyNone == [t |-> "none"]
PyStr(s) == [t |-> "str", v |-> s]
PyInt(n) == [t |-> "int", v |-> n]
PyBool(b) == [t |-> "bool", v |-> b]

Max(a, b) == IF a >= b THEN a ELSE b
Min(a, b) == IF a <= b THEN a ELSE b

(***************************************************************************)
(* constants.py                                                            *)
(***************************************************************************)
WALLPAPER_WIDTH == 1290
WALLPAPER_HEIGHT == 2796
SIDE_INSET == 72
TOP_INSET_CLOCK == 320
BOTTOM_INSET == 220

SPACING_TO_GAP == [tight |-> 2, medium |-> 4, wide |-> 6]

SpacingKeys == {"tight", "medium", "wide"}

(***************************************************************************)
(* Bounds of the model.                                                    *)
(***************************************************************************)
\* Target years are 2024 .. 2024 + MaxYearOffset: leap and common years, and
\* every weekday for January 1.
MaxYearOffset == 11

Years == 2024 .. (2024 + MaxYearOffset)

\* Column counts a stored theme can hold (normalize_theme_columns).
MinColumns == 7
MaxColumns == 31

(***************************************************************************)
(* Calendar arithmetic of datetime.date.                                   *)
(***************************************************************************)
IsLeap(y) == (y % 4 = 0) /\ ((y % 100 # 0) \/ (y % 400 = 0))

\* days_in_year: whether December 31 is day 366.
days_in_year(y) == IF IsLeap(y) THEN 366 ELSE 365

\* date(y, 1, 1).toordinal()
Jan1Ordinal(y) ==
    LET p == y - 1 IN 365 * p + (p \div 4) - (p \div 100) + (p \div 400) + 1

\* date.weekday(): Monday is 0.
PyWeekdayJan1(y) == (Jan1Ordinal(y) + 6) % 7

\* weekday_js: Sunday is 0.
weekday_js_jan1(y) == (PyWeekdayJan1(y) + 1) % 7

MonthLength(y, m) ==
    IF m = 2 THEN (IF IsLeap(y) THEN 29 ELSE 28)
    ELSE IF m \in {4, 6, 9, 11} THEN 30 ELSE 31

RECURSIVE DaysBeforeMonth(_, _)
DaysBeforeMonth(y, m) ==
    IF m = 1 THEN 0 ELSE DaysBeforeMonth(y, m - 1) + MonthLength(y, m - 1)

\* The month of the day with 0-based index i in year y (jan1 + i days).
MonthOfIndex(y, i) ==
    CHOOSE m \in 1..12 :
        /\ DaysBeforeMonth(y, m) <= i
        /\ i < DaysBeforeMonth(y, m) + MonthLength(y, m)

\* cursor.strftime("%Y-%m-%d") for cursor = jan1 + i days: the date key
\* <<year, month, day>>.
DateKeyAt(y, i) ==
    LET m == MonthOfIndex(y, i) IN <<y, m, i - DaysBeforeMonth(y, m) + 1>>

\* The date keys of every modelled year, in the order the day loop's cursor
\* visits them.
YearDateKeys ==
    [ y \in Years |-> [ i \in 0..(days_in_year(y) - 1) |-> DateKeyAt(y, i) ] ]

DateKeyOfIndex(y, i) == YearDateKeys[y][i]

\* The 0-based day index of a date within its year.
IndexOfDate(d) == DaysBeforeMonth(d[1], d[2]) + d[3] - 1

\* date comparison cursor > today.
DateAfter(a, b) ==
    \/ a[1] > b[1]
    \/ a[1] = b[1] /\ a[2] > b[2]
    \/ a[1] = b[1] /\ a[2] = b[2] /\ a[3] > b[3]

(***************************************************************************)
(* wallpaper.py: layout                                                    *)
(***************************************************************************)
clamp_int(value, minimum, maximum) ==
    IF minimum > maximum THEN minimum ELSE Max(minimum, Min(maximum, value))

\* <<left, top, right, bottom>>; int(x * 0.17) etc. truncate.
clock_safe_box ==
    << (WALLPAPER_WIDTH * 17) \div 100,
       (WALLPAPER_HEIGHT * 5) \div 100,
       (WALLPAPER_WIDTH * 83) \div 100,
       TOP_INSET_CLOCK + 220 >>

widget_soft_safe_box ==
    << SIDE_INSET,
       TOP_INSET_CLOCK + 170,
       WALLPAPER_WIDTH - SIDE_INSET,
       TOP_INSET_CLOCK + 620 >>

point_in_box(x, y, box) ==
    x >= box[1] /\ x < box[3] /\ y >= box[2] /\ y < box[4]

\* A resolve_protected_top that ignores the widget row.
resolve_protected_top_clock_only(avoid_lock_screen_ui) == TOP_INSET_CLOCK

resolve_protected_top(avoid_lock_screen_ui) ==
    IF avoid_lock_screen_ui THEN widget_soft_safe_box[4] + 28
    ELSE TOP_INSET_CLOCK

\* A resolve_effective_gap without the floor of one pixel.
resolve_effective_gap_no_floor(spacing_key, grid_columns) ==
    LET gap == IF spacing_key \in SpacingKeys THEN SPACING_TO_GAP[spacing_key]
               ELSE SPACING_TO_GAP["medium"]
        dense_columns == Max(0, grid_columns - 20)
        gap_reduction == Min(2, dense_columns \div 5)
    IN gap - gap_reduction

resolve_effective_gap(spacing_key, grid_columns) ==
    LET gap == IF spacing_key \in SpacingKeys THEN SPACING_TO_GAP[spacing_key]
               ELSE SPACING_TO_GAP["medium"]
        dense_columns == Max(0, grid_columns - 20)
        gap_reduction == Min(2, dense_columns \div 5)
    IN Max(1, gap - gap_reduction)

\* round() of num/den for num >= 0, den > 0: to nearest, ties to even.
RoundHalfEven(num, den) ==
    LET q == num \div den
        r == num % den
    IN IF 2 * r > den THEN q + 1
       ELSE IF 2 * r < den THEN q
       ELSE IF q % 2 = 0 THEN q ELSE q + 1

\* utilization * 1700: base + dense_ratio * 0.08 with dense_ratio =
\* clamp((columns - 14) / 17, 0, 1), capped at 0.92.
Utilization1700(spacing_key, grid_columns) ==
    LET dense17 == Max(0, Min(17, grid_columns - 14))
        base100 == IF spacing_key = "tight" THEN 84
                   ELSE IF spacing_key = "wide" THEN 74 ELSE 80
    IN Min(92 * 17, base100 * 17 + dense17 * 8)

\* int(round(slot_size * utilization)).  The double product differs from the
\* decimal one at a single tie in the range checked against the source
\* (slot sizes 0..400): wide, 31 columns, slot 75 gives 61.499... .
RoundedDot(slot_size, spacing_key, grid_columns) ==
    IF spacing_key = "wide" /\ grid_columns = 31 /\ slot_size = 75 THEN 61
    ELSE RoundHalfEven(slot_size * Utilization1700(spacing_key, grid_columns), 1700)

\* A resolve_dot_size without the 8 pixel floor.
resolve_dot_size_no_floor(slot_size, spacing_key, grid_columns) ==
    Min(slot_size, RoundedDot(slot_size, spacing_key, grid_columns))

\* A resolve_dot_size whose utilization falls with the number of columns.
resolve_dot_size_thinning(slot_size, spacing_key, grid_columns) ==
    Max(8, Min(slot_size,
               RoundedDot(slot_size, spacing_key, MinColumns + MaxColumns - grid_columns)))

resolve_dot_size(slot_size, spacing_key, grid_columns) ==
    Max(8, Min(slot_size, RoundedDot(slot_size, spacing_key, grid_columns)))

resolve_grid_top(position, grid_height, protected_top, available_height) ==
    LET min_top == Max(0, protected_top)
        max_top == WALLPAPER_HEIGHT - BOTTOM_INSET - grid_height
    IN IF max_top < min_top THEN Max(0, max_top)
       ELSE IF position = "center" THEN
           clamp_int(min_top + Max(0, (available_height - grid_height) \div 2),
                     min_top, max_top)
       ELSE IF protected_top > TOP_INSET_CLOCK THEN
           LET extra_vertical_room == Max(0, available_height - grid_height)
               lower_bias == Min(56, extra_vertical_room \div 7)
           IN clamp_int(min_top + lower_bias, min_top, max_top)
       ELSE
           LET top_safe == TOP_INSET_CLOCK + 36
               min_top2 == Max(min_top, top_safe)
               target_visual_center_y == (WALLPAPER_HEIGHT * 60) \div 100
               centered_top == target_visual_center_y - (grid_height \div 2)
               extra_vertical_room == Max(0, available_height - grid_height)
               lower_bias == Min(72, extra_vertical_room \div 5)
           IN clamp_int(centered_top + lower_bias, min_top2, max_top)

\* A corner radius rounded to the nearest pixel.
CornerRadiusRounded(shape, dot_size) ==
    IF shape = "square" THEN 0 ELSE Max(1, RoundHalfEven(dot_size * 24, 100))

\* The corner radius: 0 for square, max(1, int(dot_size * 0.24)) otherwise.
CornerRadius(shape, dot_size) ==
    IF shape = "square" THEN 0 ELSE Max(1, (dot_size * 24) \div 100)

\* The geometry render_wallpaper_png derives from the theme and the year.
GridLayout(grid_columns, spacing_key, position, avoid_lock_screen_ui, shape, year) ==
    LET jan1_offset == weekday_js_jan1(year)
        gap == resolve_effective_gap(spacing_key, grid_columns)
        grid_rows == (days_in_year(year) + jan1_offset + grid_columns - 1) \div grid_columns
        available_width == WALLPAPER_WIDTH - (SIDE_INSET * 2)
        protected_top == resolve_protected_top(avoid_lock_screen_ui)
        available_height == WALLPAPER_HEIGHT - protected_top - BOTTOM_INSET
        slot_by_width == (available_width - (gap * (grid_columns - 1))) \div grid_columns
        slot_by_height == (available_height - (gap * (grid_rows - 1))) \div grid_rows
        slot_size == Max(2, Min(slot_by_width, slot_by_height))
        grid_width == (slot_size * grid_columns) + (gap * (grid_columns - 1))
        grid_height == (slot_size * grid_rows) + (gap * (grid_rows - 1))
        top == resolve_grid_top(position, grid_height, protected_top, available_height)
        left == (WALLPAPER_WIDTH - grid_width) \div 2
        dot_size == resolve_dot_size(slot_size, spacing_key, grid_columns)
        dot_inset == (slot_size - dot_size) \div 2
    IN [ jan1_offset |-> jan1_offset, grid_columns |-> grid_columns, gap |-> gap,
         grid_rows |-> grid_rows, protected_top |-> protected_top,
         available_height |-> available_height, slot_size |-> slot_size,
         grid_width |-> grid_width, grid_height |-> grid_height,
         top |-> top, left |-> left, dot_size |-> dot_size,
         dot_inset |-> dot_inset, radius |-> CornerRadius(shape, dot_size) ]


(***************************************************************************)
(* utils.py: colour strings                                                *)
(***************************************************************************)
HexDigits == <<"0", "1", "2", "3", "4", "5", "6", "7", "8", "9",
               "a", "b", "c", "d", "e", "f">>

UpperHex == <<"A", "B", "C", "D", "E", "F">>

Whitespace == {" ", "\t", "\n"}

IsStr(value) == value.t = "str"

\* str.lower() on one character (only A..F matter to a hex colour).
LowerChar(ch) ==
    IF \E i \in 1..6 : UpperHex[i] = ch
    THEN HexDigits[10 + (CHOOSE i \in 1..6 : UpperHex[i] = ch)]
    ELSE ch

IsHexChar(ch) == \E i \in 1..16 : HexDigits[i] = LowerChar(ch)

HexValue(ch) == (CHOOSE i \in 1..16 : HexDigits[i] = LowerChar(ch)) - 1

RECURSIVE LStrip(_)
LStrip(s) == IF s # << >> /\ Head(s) \in Whitespace THEN LStrip(Tail(s)) ELSE s

RECURSIVE RStrip(_)
RStrip(s) ==
    IF s # << >> /\ s[Len(s)] \in Whitespace THEN RStrip(SubSeq(s, 1, Len(s) - 1))
    ELSE s

\* str.strip()
Strip(s) == RStrip(LStrip(s))

\* A colour whose letters keep the case they were written in.
normalize_hex_color_keep_case(value, fallback) ==
    IF ~IsStr(value) THEN fallback
    ELSE LET trimmed == Strip(value.v)
             shaped == (Len(trimmed) = 7 /\ trimmed[1] = "#") \/ Len(trimmed) = 6
             candidate == IF Len(trimmed) = 7 THEN Tail(trimmed) ELSE trimmed
         IN IF ~shaped THEN fallback
            ELSE IF \E i \in 1..6 : ~IsHexChar(candidate[i]) THEN fallback
            ELSE PyStr(<<"#">> \o candidate)

normalize_hex_color(value, fallback) ==
    IF ~IsStr(value) THEN fallback
    ELSE LET trimmed == Strip(value.v)
             shaped == (Len(trimmed) = 7 /\ trimmed[1] = "#") \/ Len(trimmed) = 6
             candidate == IF Len(trimmed) = 7 THEN Tail(trimmed) ELSE trimmed
         IN IF ~shaped THEN fallback
            ELSE IF \E i \in 1..6 : ~IsHexChar(candidate[i]) THEN fallback
            ELSE PyStr(<<"#">> \o [i \in 1..6 |-> LowerChar(candidate[i])])

\* int(normalized[a:a+2], 16) for the three channels.
hex_to_rgb(hex_color, fallback) ==
    LET normalized == normalize_hex_color(hex_color, PyNone)
    IN IF normalized = PyNone THEN fallback
       ELSE LET h == normalized.v
            IN << 16 * HexValue(h[2]) + HexValue(h[3]),
                  16 * HexValue(h[4]) + HexValue(h[5]),
                  16 * HexValue(h[6]) + HexValue(h[7]) >>

(***************************************************************************)
(* IEEE-754 tables.  Each entry is an input at which the double value of   *)
(* the source expression is not the round-half-even of its decimal value   *)
(* (the decimal value is an exact tie and the double lands beside it).     *)
(* BlendTieFlips: alpha% * 65536 + a * 256 + b for blend_channel(a, b,     *)
(* alpha), over every a, b in 0..255 and every alpha the source uses.      *)
(* LuminanceTieFlips, LuminanceBelow128Extra: r * 65536 + g * 256 + b.     *)
(***************************************************************************)
BlendTieFlips ==
    {
      328047, 328404, 328444, 328461, 329252, 330003, 330754, 330794,
      331268, 332296, 333601, 333838, 333878, 333918, 333958, 334866,
      335143, 335183, 336131, 336922, 336962, 338187, 338227, 338267,
      339492, 339532, 340006, 340046, 340086, 340126, 340166, 340206,
      340757, 340797, 341271, 341311, 341351, 341391, 341431, 341471,
      342022, 342062, 342102, 342536, 342576, 342616, 342656, 342696,
      343327, 343367, 343841, 343881, 344592, 346134, 346174, 346214,
      346254, 346294, 347399, 347439, 347479, 347519, 347559, 348704,
      348744, 348784, 348824, 349969, 350009, 350049, 350089, 350129,
      351234, 351274, 351314, 351354, 351394, 352262, 352302, 352342,
      352382, 352422, 352462, 352502, 352539, 352579, 352619, 352659,
      352699, 353567, 353607, 353647, 353687, 353727, 353767, 353804,
      353844, 353884, 353924, 353964, 354832, 354872, 354912, 354952,
      354992, 355032, 355109, 355149, 355189, 355229, 356097, 356137,
      356177, 356217, 356257, 356297, 356337, 356374, 356414, 356454,
      356494, 356534, 357402, 357442, 357482, 357522, 357562, 357602,
      357639, 357679, 357719, 357759, 357799, 358667, 358707, 358747,
      358787, 358827, 358867, 358907, 358944, 358984, 359024, 359064,
      359972, 360012, 360052, 360092, 360209, 360249, 360289, 360329,
      361237, 361277, 361474, 361514, 363293, 363333, 363373, 363413,
      363453, 363493, 364558, 364598, 364638, 364678, 364718, 364758,
      364798, 365863, 365903, 365943, 365983, 366023, 366063, 367128,
      367168, 367208, 367248, 367288, 367328, 368393, 368433, 368473,
      368513, 368553, 368593, 368633, 369698, 369738, 369778, 369818,
      369858, 369898, 370963, 371003, 371043, 371083, 371123, 371163,
      372228, 372268, 372308, 372348, 372388, 372428, 372468, 373533,
      373573, 373613, 373653, 373693, 373733, 374798, 374838, 374878,
      374918, 374958, 374998, 375038, 376103, 376143, 376183, 376223,
      376263, 376303, 376854, 376894, 376934, 376974, 377014, 377054,
      377368, 377408, 377448, 377488, 377528, 377568, 378119, 378159,
      378199, 378239, 378279, 378319, 378359, 378633, 378673, 378713,
      378753, 378793, 378833, 378873, 379424, 379464, 379504, 379544,
      379584, 379624, 379938, 379978, 380018, 380058, 380098, 380138,
      380689, 380729, 380769, 380809, 380849, 380889, 381203, 381243,
      381283, 381323, 381363, 381403, 381954, 381994, 382034, 382074,
      382114, 382154, 382194, 382468, 382508, 382548, 382588, 382628,
      382668, 382708, 383259, 383299, 383339, 383379, 383419, 383459,
      383773, 383813, 383853, 383893, 383933, 383973, 384524, 384564,
      384604, 384644, 384684, 384724, 384764, 385038, 385078, 385118,
      385158, 385198, 385238, 385278, 385829, 385869, 385909, 385949,
      385989, 386029, 386343, 386383, 386423, 386463, 386503, 386543,
      387094, 387134, 387174, 387214, 387254, 387294, 387608, 387648,
      387688, 387728, 387768, 387808, 388359, 388399, 388439, 388479,
      388519, 388559, 388599, 388873, 388913, 388953, 388993, 389033,
      389073, 389113, 389664, 389704, 389744, 389784, 389824, 389864,
      390178, 390218, 390258, 390298, 390338, 390378, 390929, 390969,
      391009, 391049, 391089, 391129, 391443, 391483, 391523, 391563,
      391603, 391643, 392194, 392234, 392274, 392314, 392354, 392394,
      392434, 392708, 392748, 392788, 392828, 392868, 392908, 392948,
      602881, 603395, 603909, 604423, 604937, 605451, 605965, 610591,
      611619, 612647, 613675, 619172, 620200, 621228, 623441, 627039,
      629095, 629252, 631308, 633364, 633564, 635420, 635620, 637476,
      637676, 637833, 639889, 641945, 644001, 644158, 646057, 646214,
      648270, 650326, 652382, 652739, 654438, 654595, 654795, 655672,
      655712, 655732, 655752, 655959, 655979, 655999, 656079, 656099,
      656119, 656553, 656573, 656593, 656613, 656633, 657354, 657374,
      657394, 658629, 658696, 658716, 660752, 660772, 660792, 660812,
      660832, 660852, 662027, 662047, 662067, 662087, 663302, 663322,
      664844, 664864, 664884, 664904, 664924, 664944, 664964, 664984,
      665024, 665044, 665064, 665084, 666119, 666139, 666159, 666179,
      666199, 666219, 666239, 666259, 666319, 666339, 666359, 667394,
      667414, 667434, 667454, 667474, 667494, 667514, 667534, 667594,
      668689, 668709, 668729, 668749, 668769, 668789, 668809, 668829,
      669964, 669984, 670004, 670024, 670044, 670064, 671239, 671259,
      671279, 671299, 672514, 672534, 674323, 674343, 674363, 674383,
      674403, 674423, 674443, 674463, 674483, 674503, 674523, 674543,
      675598, 675618, 675638, 675658, 675678, 675698, 675718, 675738,
      675758, 675778, 675798, 675818, 675838, 676873, 676893, 676913,
      676933, 676953, 676973, 676993, 677013, 677033, 677053, 677073,
      677093, 677113, 678148, 678168, 678188, 678208, 678228, 678248,
      678268, 678288, 678308, 678328, 678348, 678368, 678388, 679443,
      679463, 679483, 679503, 679523, 679543, 679563, 679583, 679603,
      679623, 679643, 679663, 680718, 680738, 680758, 680778, 680798,
      680818, 680838, 680858, 680878, 680898, 680918, 680938, 680958,
      681993, 682013, 682033, 682053, 682073, 682093, 682113, 682133,
      682153, 682173, 682193, 682213, 682233, 683268, 683288, 683308,
      683328, 683348, 683368, 683388, 683408, 683428, 683448, 683468,
      683488, 683508, 684563, 684583, 684603, 684623, 684643, 684663,
      684683, 684703, 684723, 684743, 684763, 684783, 685838, 685858,
      685878, 685898, 685918, 685938, 685958, 685978, 685998, 686018,
      687113, 687133, 687153, 687173, 687193, 687213, 687233, 687253,
      688388, 688408, 688428, 688448, 688468, 688488, 689683, 689703,
      689723, 690958, 691986, 692006, 692026, 692046, 692066, 692086,
      692106, 692126, 692146, 692166, 692186, 692206, 693261, 693281,
      693301, 693321, 693341, 693361, 693381, 693401, 693421, 693441,
      693461, 693481, 693501, 694536, 694556, 694576, 694596, 694616,
      694636, 694656, 694676, 694696, 694716, 694736, 694756, 694776,
      695811, 695831, 695851, 695871, 695891, 695911, 695931, 695951,
      695971, 695991, 696011, 696031, 696051, 697106, 697126, 697146,
      697166, 697186, 697206, 697226, 697246, 697266, 697286, 697306,
      697326, 698381, 698401, 698421, 698441, 698461, 698481, 698501,
      698521, 698541, 698561, 698581, 698601, 698621, 699656, 699676,
      699696, 699716, 699736, 699756, 699776, 699796, 699816, 699836,
      699856, 699876, 699896, 700931, 700951, 700971, 700991, 701011,
      701031, 701051, 701071, 701091, 701111, 701131, 701151, 701171,
      702226, 702246, 702266, 702286, 702306, 702326, 702346, 702366,
      702386, 702406, 702426, 702446, 703501, 703521, 703541, 703561,
      703581, 703601, 703621, 703641, 703661, 703681, 703701, 703721,
      703741, 704776, 704796, 704816, 704836, 704856, 704876, 704896,
      704916, 704936, 704956, 704976, 704996, 705016, 706051, 706071,
      706091, 706111, 706131, 706151, 706171, 706191, 706211, 706231,
      706251, 706271, 706291, 707346, 707366, 707386, 707406, 707426,
      707446, 707466, 707486, 707506, 707526, 707546, 707566, 708621,
      708641, 708661, 708681, 708701, 708721, 708741, 708761, 708781,
      708801, 708821, 708841, 708861, 709896, 709916, 709936, 709956,
      709976, 709996, 710016, 710036, 710056, 710076, 710096, 710116,
      710136, 711171, 711191, 711211, 711231, 711251, 711271, 711291,
      711311, 711331, 711351, 711371, 711391, 711411, 712466, 712486,
      712506, 712526, 712546, 712566, 712586, 712606, 712626, 712646,
      712666, 712686, 713741, 713761, 713781, 713801, 713821, 713841,
      713861, 713881, 713901, 713921, 713941, 713961, 713981, 715016,
      715036, 715056, 715076, 715096, 715116, 715136, 715156, 715176,
      715196, 715216, 715236, 715256, 716291, 716311, 716331, 716351,
      716371, 716391, 716411, 716431, 716451, 716471, 716491, 716511,
      716531, 717586, 717606, 717626, 717646, 717666, 717686, 717706,
      717726, 717746, 717766, 717786, 717806, 718861, 718881, 718901,
      718921, 718941, 718961, 718981, 719001, 719021, 719041, 719061,
      719081, 719101, 720136, 720156, 720176, 720196, 720216, 720236,
      720256, 720276, 720296, 720316, 720336, 720356, 720376, 917579,
      917679, 917786, 917986, 918093, 918707, 918914, 919221, 920042,
      920556, 923640, 926474, 953102, 956700, 962561, 963075, 975925,
      976439, 982300, 982814, 1188104, 1188618, 1189646, 1190160, 1190674,
      1190981, 1191188, 1191495, 1191702, 1191802, 1196842, 1199105, 1199619,
      1200133, 1200647, 1201161, 1201261, 1201675, 1201775, 1202189, 1202289,
      1202703, 1202803, 1203217, 1203317, 1203731, 1203831, 1203931, 1207122,
      1207636, 1208150, 1208664, 1209178, 1209692, 1210206, 1210720, 1211234,
      1211648, 1211748, 1212162, 1212262, 1212983, 1213497, 1214011, 1214525,
      1215039, 1215553, 1219665, 1220386, 1220486, 1220586, 1220693, 1221721,
      1222749, 1222849, 1223777, 1223877, 1224705, 1224805, 1224905, 1225733,
      1225833, 1225933, 1226040, 1226761, 1226861, 1226961, 1227068, 1227789,
      1227889, 1227989, 1228096, 1228196, 1229124, 1229224, 1230152, 1230252,
      1231180, 1231280, 1232208, 1232308, 1232415, 1233236, 1233336, 1233443,
      1233543, 1234264, 1234364, 1234471, 1234571, 1235292, 1235392, 1235499,
      1235599, 1236320, 1236420, 1236527, 1236627, 1236727, 1237555, 1237655,
      1237755, 1237762, 1238583, 1238683, 1238783, 1238790, 1239611, 1239711,
      1239818, 1239918, 1240639, 1240739, 1240846, 1240946, 1241667, 1241767,
      1241874, 1241974, 1242074, 1242695, 1242795, 1242902, 1243002, 1243102,
      1243723, 1243823, 1243930, 1244030, 1244130, 1244751, 1244851, 1244958,
      1245058, 1245158, 2228556, 2228763, 2229070, 2229377, 2229584, 2229891,
      2230405, 2230919, 2231433, 2231533, 2232561, 2233589, 2234617, 2234881,
      2235395, 2235909, 2236423, 2236937, 2238993, 2241049, 2241563, 2242077,
      2242591, 2243105, 2243619, 2244133, 2247424, 2247938, 2248452, 2248966,
      2249480, 2249994, 2250508, 2251022, 2253592, 2253899, 2254620, 2254927,
      2255648, 2255955, 2256676, 2256983, 2257190, 2257290, 2258011, 2258218,
      2258318, 2259246, 2260274, 2260995, 2261302, 2261509, 2261609, 2262023,
      2262330, 2262537, 2262637, 2263051, 2263358, 2263565, 2264079, 2264386,
      2264593, 2265414, 2265621, 2265928, 2266442, 2266649, 2266956, 2267677,
      2268705, 2269733, 2270247, 2270761, 2271275, 2271789, 2272303, 2273024,
      2273331, 2273538, 2273638, 2274052, 2274566, 2274666, 2275080, 2275594,
      2276108, 2276622, 2277650, 2278678, 2278985, 2279192, 2279292, 2279499,
      2279599, 2280734, 2281041, 2281248, 2281348, 2281555, 2281655, 2281762,
      2281862, 2281962, 2283097, 2283304, 2283404, 2283611, 2283711, 2283818,
      2283918, 2284018, 2285360, 2285460, 2285667, 2285874, 2285974, 2286074,
      2286081, 2286181, 2286281, 2287109, 2287416, 2287623, 2287723, 2287930,
      2288030, 2288137, 2288237, 2288337, 2289165, 2289472, 2289679, 2289779,
      2289986, 2290086, 2290193, 2290293, 2290393, 2290500, 2290600, 2291528,
      2291735, 2291835, 2292042, 2292142, 2292249, 2292349, 2292449, 2292556,
      2292656, 5374027, 5374541, 5374748, 5374948, 5375262, 5375976, 5377004,
      5377111, 5377625, 5378032, 5378139, 5378653, 5379060, 5379167, 5379267,
      5380295, 5380352, 5380502, 5380866, 5381323, 5381380, 5381430, 5381894,
      5382351, 5383379, 5384407, 5386670, 5387034, 5387698, 5387905, 5388419,
      5388726, 5388933, 5389447, 5389754, 5390061, 5391089, 5392117, 5393145,
      5393409, 5393923, 5394173, 5394437, 5394951, 5395101, 5395465, 5395979,
      5396493, 5397464, 5397521, 5398492, 5399520, 5404867, 5405745, 5405952,
      5406466, 5406980, 5407494, 5408008, 5408522, 5409036, 5409550, 5410064,
      5410578, 5411092, 5411606, 5412120, 5412634, 5413662, 5413969, 5414176,
      5414483, 5414690, 5414997, 5415204, 5415661, 5419009, 5419316, 5419523,
      5420037, 5420551, 5421065, 5421579, 5422093, 5422607, 5423121, 5423635,
      5424149, 5424663, 5425177, 5426205, 5426719, 5427233, 5427747, 5428261,
      5431552, 5431652, 5431859, 5432066, 5432166, 5432373, 5432580, 5432680,
      5433094, 5433608, 5434122, 5434636, 5435150, 5435664, 5436178, 5436692,
      5436999, 5437206, 5437513, 5437720, 5438234, 5438748, 5439055, 5439262
    }

LuminanceTieFlips ==
    {
      3660, 17420, 90533, 104293, 149006, 176966, 177406, 190726,
      191166, 235879, 249639, 294792, 322312, 381225, 381665, 412178,
      412618, 426378, 454338, 471531, 499051, 571724, 585484, 585924,
      616877, 630637, 644397, 675350, 689550, 717070, 806936, 821136,
      849096, 924762, 938522, 973362, 997435, 1039155, 1070548, 1098068,
      1111828, 1129461, 1156981, 1243414, 1243854, 1274807, 1302767, 1347480,
      1375440, 1392193, 1392633, 1433913, 1465306, 1492826, 1506586, 1537539,
      1537979, 1551739, 1610652, 1638172, 1655365, 1669565, 1697525, 1786951,
      1800711, 1814911, 1828671, 1860064, 1887584, 1918537, 1991210, 2005410,
      2063883, 2091843, 2092283, 2195469, 2195909, 2268582, 2282342, 2385968,
      2386408, 2486601, 2576467, 2590227, 2590667, 2635380, 2677100, 2721813,
      2780726, 2781166, 2867599, 2881359, 2912312, 2940272, 2971225, 3012945,
      3015938, 3058098, 3071858, 3116571, 3117011, 3262357, 3307070, 3307510,
      3335030, 3407703, 3584002, 3642915, 3701828, 3716028, 3729788, 3760741,
      3788701, 3805454, 3833414, 3978760, 4023913, 4037673, 4038113, 4110786,
      4124546, 4155499, 4183459, 4300845, 4345998, 4373518, 4477584, 4491344,
      4505104, 4512424, 4519304, 4578217, 4637130, 4681843, 4719676, 4754516,
      4768276, 4782476, 4858142, 4886102, 4959215, 4972975, 5031888, 5062401,
      5076601, 5163034, 5177234, 5246020, 5267100, 5326013, 5353973, 5367733,
      5426206, 5426646, 5450279, 5457159, 5485119, 5516072, 5557792, 5558232,
      5602945, 5630905, 5661858, 5748731, 5762051, 5793444, 5820964, 5845037,
      5851917, 5893637, 5910830, 5952550, 5952990, 5997703, 6025663, 6042416,
      6215722, 6226035, 6246675, 6260875, 6274635, 6288395, 6305588, 6333548,
      6420421, 6430294, 6451374, 6479334, 6496087, 6524047, 6552007, 6610480,
      6669393, 6683153, 6728306, 6773019, 6814739, 6815179, 6825052, 6831932,
      6846132, 6874092, 6890845, 6904605, 6946765, 6991478, 7036631, 7064151,
      7123064, 7167777, 7195737, 7203057, 7219810, 7227130, 7240890, 7268850,
      7358276, 7372036, 7372476, 7386236, 7410309, 7458909, 7476102, 7562535,
      7562975, 7635208, 7663168, 7663608, 7766794, 7805067, 7811947, 7839907,
      7853667, 7898380, 7957733, 8044166, 8057926, 8058366, 8147792, 8161552,
      8199825, 8213585, 8248425, 8293138, 8293578, 8424724, 8452684, 8483637,
      8511597, 8542550, 8584270, 8643183, 8688336, 8746809, 8785082, 8819482,
      8878395, 8906355, 8916228, 8937308, 8965268, 8982021, 9024181, 9083094,
      9179840, 9214240, 9287353, 9301113, 9310986, 9332066, 9360026, 9432699,
      9484292, 9550085, 9595238, 9608998, 9682111, 9726824, 9754784, 9813697,
      9896243, 9944843, 9968916, 10048909, 10076869, 10107822, 10149542, 10159855,
      10173615, 10201135, 10208455, 10297881, 10312081, 10325841, 10339601, 10353801,
      10443667, 10495260, 10537420, 10544300, 10603213, 10685759, 10720599, 10793712,
      10838425, 10897338, 10924858, 10939058, 10948931, 10963131, 10997531, 10997971,
      11028484, 11115357, 11202230, 11319616, 11333816, 11392289, 11423242, 11437442,
      11464962, 11475275, 11489035, 11583228, 11596988, 11665774, 11745327, 11787047,
      11818000, 11832200, 11845960, 11859720, 11904873, 11918633, 11928946, 11991306,
      12008939, 12050659, 12123332, 12174925, 12181805, 12240718, 12254478, 12285871,
      12299631, 12386064, 12445417, 12455290, 12534843, 12576563, 12635476, 12659549,
      12694389, 12739102, 12798455, 12839735, 12840175, 12988514, 13016474, 13030234,
      13089147, 13234933, 13324359, 13383272, 13390152, 13411232, 13435305, 13449065,
      13462825, 13615491, 13629691, 13660204, 13688164, 13719117, 13760837, 13805990,
      13864903, 13892863, 14010249, 14082922, 14128075, 14155595, 14179668, 14259661,
      14390807, 14470800, 14477680, 14508633, 14522833, 14536593, 14574426, 14609266,
      14647099, 14771805, 14785565, 14865558, 14872438, 14931351, 14976504, 15004024,
      15048737, 15121410, 15145483, 15225476, 15252996, 15260316, 15267196, 15284389,
      15326109, 15350182, 15385022, 15409095, 15474448, 15502408, 15516168, 15530368,
      15561321, 15707107, 15779780, 15862326, 15910926, 15956079, 16073905, 16101865,
      16139698, 16174098, 16174538, 16233011, 16305684, 16306124, 16350837, 16378797,
      16468663, 16496623, 16568856, 16569296, 16599809, 16665602, 16745595, 16773555
    }

LuminanceBelow128Extra ==
    {
      831236, 1022175, 9533105, 10453767, 10644706, 11565368
    }

(***************************************************************************)
(* wallpaper.py: colour model                                              *)
(***************************************************************************)
\* blend_channel(a, b, pct / 100): int(round(a * (1 - alpha) + b * alpha))
\* clamped to 0..255.
blend_channel(a, b, pct) ==
    LET num == a * (100 - pct) + b * pct
        even == RoundHalfEven(num, 100)
        q == num \div 100
        v == IF (num % 100 = 50) /\ ((pct * 65536 + a * 256 + b) \in BlendTieFlips)
             THEN (IF even = q THEN q + 1 ELSE q)
             ELSE even
    IN Max(0, Min(255, v))

blend_rgb(a, b, pct) ==
    << blend_channel(a[1], b[1], pct),
       blend_channel(a[2], b[2], pct),
       blend_channel(a[3], b[3], pct) >>

\* blend_channel(a, b, y / denominator), the gradient's per-row blend; the
\* decimal value is never a tie because the denominator is odd.
blend_channel_row(a, b, y, denominator) ==
    Max(0, Min(255, RoundHalfEven(a * (denominator - y) + b * y, denominator)))

\* 10000 * (0.2126 r + 0.7152 g + 0.0722 b)
Luminance10000(c) == 2126 * c[1] + 7152 * c[2] + 722 * c[3]

ColorCode(c) == c[1] * 65536 + c[2] * 256 + c[3]

\* luminance < 128
LuminanceBelow128(c) ==
    Luminance10000(c) < 1280000 \/ ColorCode(c) \in LuminanceBelow128Extra

\* A derive_empty_color that lightens every background.
derive_empty_color_lighten(bg_rgb) == blend_rgb(bg_rgb, <<255, 255, 255>>, 18)

derive_empty_color(bg_rgb) ==
    IF LuminanceBelow128(bg_rgb) THEN blend_rgb(bg_rgb, <<255, 255, 255>>, 18)
    ELSE blend_rgb(bg_rgb, <<0, 0, 0>>, 14)

\* <<top_rgb, bottom_rgb>>
derive_background_gradient(bg_rgb) ==
    IF LuminanceBelow128(bg_rgb)
    THEN << blend_rgb(bg_rgb, <<255, 255, 255>>, 9), blend_rgb(bg_rgb, <<0, 0, 0>>, 16) >>
    ELSE << blend_rgb(bg_rgb, <<255, 255, 255>>, 5), blend_rgb(bg_rgb, <<0, 0, 0>>, 10) >>

desaturate_rgb(color) ==
    LET n == Luminance10000(color)
        even == RoundHalfEven(n, 10000)
        q == n \div 10000
        luminance == IF (n % 10000 = 5000) /\ (ColorCode(color) \in LuminanceTieFlips)
                     THEN (IF even = q THEN q + 1 ELSE q)
                     ELSE even
    IN <<luminance, luminance, luminance>>

\* A treatment that leaves recorded days alone.
apply_dot_readability_treatment_mood_untouched(color, bg_rgb, kind, center_x, center_y) ==
    IF kind \in {"empty", "future"}
       /\ point_in_box(center_x, center_y, widget_soft_safe_box)
    THEN blend_rgb(color, bg_rgb, IF kind = "empty" THEN 34 ELSE 50)
    ELSE color

apply_dot_readability_treatment(color, bg_rgb, kind, center_x, center_y) ==
    IF kind = "mood" /\ point_in_box(center_x, center_y, clock_safe_box)
    THEN blend_rgb(blend_rgb(color, desaturate_rgb(color), 82), bg_rgb, 52)
    ELSE IF kind \in {"empty", "future"}
            /\ point_in_box(center_x, center_y, widget_soft_safe_box)
    THEN blend_rgb(color, bg_rgb, IF kind = "empty" THEN 34 ELSE 50)
    ELSE color


(***************************************************************************)
(* theme.py: normalisers used by the renderer                              *)
(***************************************************************************)
Digits == <<"0", "1", "2", "3", "4", "5", "6", "7", "8", "9">>

IsDigit(ch) == \E i \in 1..10 : Digits[i] = ch

DigitValue(ch) == (CHOOSE i \in 1..10 : Digits[i] = ch) - 1

RECURSIVE DigitsValue(_)
DigitsValue(s) ==
    IF s = << >> THEN 0
    ELSE 10 * DigitsValue(SubSeq(s, 1, Len(s) - 1)) + DigitValue(s[Len(s)])

\* int(stripped): an optional sign and decimal digits; PyNone stands for
\* ValueError.
ParseInt(stripped) ==
    LET signed == stripped # << >> /\ Head(stripped) \in {"+", "-"}
        digits == IF signed THEN Tail(stripped) ELSE stripped
    IN IF digits = << >> \/ (\E i \in 1..Len(digits) : ~IsDigit(digits[i])) THEN PyNone
       ELSE PyInt(IF signed /\ Head(stripped) = "-" THEN 0 - DigitsValue(digits)
                  ELSE DigitsValue(digits))
\* Columns that are clamped into 7..31 instead of being refused.
normalize_theme_columns_clamped(value, fallback) ==
    IF value.t = "int" THEN clamp_int(value.v, 7, 31) ELSE fallback

normalize_theme_columns(value, fallback) ==
    IF value.t = "bool" THEN fallback
    ELSE LET candidate ==
                 IF value.t = "int" THEN value
                 ELSE IF value.t = "str" /\ Strip(value.v) # << >> THEN ParseInt(Strip(value.v))
                 ELSE PyNone
         IN IF candidate # PyNone /\ 7 <= candidate.v /\ candidate.v <= 31
            THEN candidate.v ELSE fallback

LowerAlpha == <<"a", "b", "c", "d", "e", "f", "g", "h", "i", "j", "k", "l", "m",
                "n", "o", "p", "q", "r", "s", "t", "u", "v", "w", "x", "y", "z">>

UpperAlpha == <<"A", "B", "C", "D", "E", "F", "G", "H", "I", "J", "K", "L", "M",
                "N", "O", "P", "Q", "R", "S", "T", "U", "V", "W", "X", "Y", "Z">>

\* str.lower()
Lower(s) ==
    [i \in 1..Len(s) |->
        IF \E k \in 1..26 : UpperAlpha[k] = s[i]
        THEN LowerAlpha[CHOOSE k \in 1..26 : UpperAlpha[k] = s[i]]
        ELSE s[i]]

TruthyWords == { <<"1">>, <<"t", "r", "u", "e">>, <<"y", "e", "s">>, <<"o", "n">> }

FalsyWords == { <<"0">>, <<"f", "a", "l", "s", "e">>, <<"n", "o">>, <<"o", "f", "f">> }

normalize_theme_avoid_lock_screen_ui(value, fallback) ==
    IF value.t = "bool" THEN value.v
    ELSE IF value.t = "int" THEN
        (IF value.v = 0 THEN FALSE ELSE IF value.v = 1 THEN TRUE ELSE fallback)
    ELSE IF value.t = "str" THEN
        LET normalized == Lower(Strip(value.v))
        IN IF normalized \in TruthyWords THEN TRUE
           ELSE IF normalized \in FalsyWords THEN FALSE
           ELSE fallback
    ELSE fallback

MoodLevels == 1..5

DEFAULT_THEME ==
    [ bg_color |-> PyStr(<<"#", "0", "d", "1", "1", "1", "7">>),
      mood_colors |->
          [ level \in MoodLevels |->
              CASE level = 1 -> PyStr(<<"#", "e", "f", "4", "4", "4", "4">>)
                [] level = 2 -> PyStr(<<"#", "f", "9", "7", "3", "1", "6">>)
                [] level = 3 -> PyStr(<<"#", "e", "a", "b", "3", "0", "8">>)
                [] level = 4 -> PyStr(<<"#", "2", "2", "c", "5", "5", "e">>)
                [] level = 5 -> PyStr(<<"#", "3", "b", "8", "2", "f", "6">>) ],
      empty_color |-> PyNone,
      shape |-> "rounded",
      spacing |-> "medium",
      position |-> "clock",
      avoid_lock_screen_ui |-> FALSE,
      columns |-> 14,
      bg_image_url |-> PyNone ]

\* payload.get(key, default) on a JSON object held as a function of its keys.
PyGet(payload, key, default) ==
    IF key \in DOMAIN payload THEN payload[key] ELSE default

\* missing = object(), the sentinel of apply_theme_patch.
PyMissing == [t |-> "missing"]

\* An empty colour that a background change never resets.
next_empty_color_never_reset(current_theme, payload, did_update_bg_color) ==
    LET empty_color_source ==
            PyGet(payload, "empty_color", PyGet(payload, "emptyColor", PyMissing))
        empty_color == normalize_hex_color(empty_color_source, PyNone)
    IN IF empty_color_source = PyMissing THEN current_theme.empty_color
       ELSE IF empty_color_source = PyNone THEN PyNone
       ELSE IF empty_color # PyNone THEN empty_color
       ELSE current_theme.empty_color

\* apply_theme_patch: next_theme["empty_color"] after the empty-colour part.
next_empty_color(current_theme, payload, did_update_bg_color) ==
    LET empty_color_source ==
            PyGet(payload, "empty_color", PyGet(payload, "emptyColor", PyMissing))
        empty_color == normalize_hex_color(empty_color_source, PyNone)
    IN IF empty_color_source = PyMissing
       THEN (IF did_update_bg_color THEN PyNone ELSE current_theme.empty_color)
       ELSE IF empty_color_source = PyNone THEN PyNone
       ELSE IF empty_color # PyNone THEN empty_color
       ELSE current_theme.empty_color

\* apply_theme_patch(current_theme, payload).  The enumerated words (shape,
\* spacing, position) and the image URL are held as strings; the texts that
\* are parsed (colours, columns, the avoid flag) as character sequences.
apply_theme_patch(current_theme, payload) ==
    LET current_columns ==
            normalize_theme_columns(PyInt(current_theme.columns), DEFAULT_THEME.columns)
        current_avoid ==
            normalize_theme_avoid_lock_screen_ui(PyBool(current_theme.avoid_lock_screen_ui),
                                                 DEFAULT_THEME.avoid_lock_screen_ui)
        bg_color ==
            normalize_hex_color(PyGet(payload, "bg_color", PyGet(payload, "bgColor", PyNone)),
                                PyNone)
        did_update_bg_color == bg_color # PyNone
        shape == PyGet(payload, "shape", PyNone)
        spacing == PyGet(payload, "spacing", PyNone)
        position == PyGet(payload, "position", PyNone)
        avoid_lock_screen_ui_source ==
            PyGet(payload, "avoid_lock_screen_ui",
                  PyGet(payload, "avoidLockScreenUi", PyMissing))
        columns_source == PyGet(payload, "columns", PyGet(payload, "gridColumns", PyMissing))
        bg_image_raw == PyGet(payload, "bg_image_url", PyGet(payload, "bgImageUrl", PyMissing))
        mood_colors_payload ==
            IF PyGet(payload, "mood_colors", PyNone).t = "dict" THEN payload["mood_colors"]
            ELSE IF PyGet(payload, "moodColors", PyNone).t = "dict" THEN payload["moodColors"]
            ELSE PyNone
    IN [ bg_color |-> IF did_update_bg_color THEN bg_color ELSE current_theme.bg_color,
         empty_color |-> next_empty_color(current_theme, payload, did_update_bg_color),
         shape |-> IF shape.t = "str" /\ shape.v \in {"rounded", "square", "rough"}
                   THEN shape.v ELSE current_theme.shape,
         spacing |-> IF spacing.t = "str" /\ spacing.v \in {"tight", "medium", "wide"}
                     THEN spacing.v ELSE current_theme.spacing,
         position |-> IF position.t = "str" /\ position.v \in {"clock", "center"}
                      THEN position.v ELSE current_theme.position,
         avoid_lock_screen_ui |->
             IF avoid_lock_screen_ui_source # PyMissing
             THEN normalize_theme_avoid_lock_screen_ui(avoid_lock_screen_ui_source,
                                                       current_avoid)
             ELSE current_avoid,
         columns |-> IF columns_source # PyMissing
                     THEN normalize_theme_columns(columns_source, current_columns)
                     ELSE current_columns,
         bg_image_url |->
             IF bg_image_raw = PyNone THEN PyNone
             ELSE IF bg_image_raw.t = "str" /\ bg_image_raw.v # "__missing__"
             THEN bg_image_raw
             ELSE current_theme.bg_image_url,
         mood_colors |->
             [ level \in MoodLevels |->
                 LET normalized ==
                         IF mood_colors_payload = PyNone THEN PyNone
                         ELSE normalize_hex_color(
                                  PyGet(mood_colors_payload.v, level, PyNone), PyNone)
                 IN IF normalized # PyNone THEN normalized
                    ELSE current_theme.mood_colors[level] ] ]

\* db.py: the themes row written by upsert_theme.
normalize_theme_for_storage(theme) ==
    [ bg_color |-> normalize_hex_color(theme.bg_color, DEFAULT_THEME.bg_color),
      empty_color |-> IF theme.empty_color = PyNone THEN PyNone
                      ELSE normalize_hex_color(theme.empty_color, PyNone),
      shape |-> IF theme.shape \in {"rounded", "square"}
                THEN theme.shape ELSE DEFAULT_THEME.shape,
      spacing |-> IF theme.spacing \in {"tight", "medium", "wide"}
                  THEN theme.spacing ELSE DEFAULT_THEME.spacing,
      position |-> IF theme.position \in {"clock", "center"}
                   THEN theme.position ELSE DEFAULT_THEME.position,
      avoid_lock_screen_ui |->
          IF normalize_theme_avoid_lock_screen_ui(PyBool(theme.avoid_lock_screen_ui),
                                                  DEFAULT_THEME.avoid_lock_screen_ui)
          THEN 1 ELSE 0,
      columns |-> normalize_theme_columns(PyInt(theme.columns), DEFAULT_THEME.columns),
      bg_image_url |-> IF theme.bg_image_url.t = "str" THEN theme.bg_image_url ELSE PyNone,
      mood_colors |->
          [ idx \in 1..5 |->
              normalize_hex_color(theme.mood_colors[idx], DEFAULT_THEME.mood_colors[idx]) ] ]

\* db.py: the theme read back from a themes row (get_theme of a user whose
\* row exists; create_user writes the row with the user).
theme_from_row(row) ==
    [ bg_color |-> normalize_hex_color(row.bg_color, DEFAULT_THEME.bg_color),
      mood_colors |->
          [ level \in MoodLevels |->
              normalize_hex_color(IF level <= Len(row.mood_colors)
                                  THEN row.mood_colors[level] ELSE PyNone,
                                  DEFAULT_THEME.mood_colors[level]) ],
      empty_color |-> IF row.empty_color # PyNone
                      THEN normalize_hex_color(row.empty_color, PyNone) ELSE PyNone,
      shape |-> IF row.shape \in {"rounded", "square"} THEN row.shape ELSE DEFAULT_THEME.shape,
      spacing |-> IF row.spacing \in {"tight", "medium", "wide"}
                  THEN row.spacing ELSE DEFAULT_THEME.spacing,
      position |-> IF row.position \in {"clock", "center"}
                   THEN row.position ELSE DEFAULT_THEME.position,
      avoid_lock_screen_ui |->
          normalize_theme_avoid_lock_screen_ui(PyInt(row.avoid_lock_screen_ui),
                                               DEFAULT_THEME.avoid_lock_screen_ui),
      columns |-> normalize_theme_columns(PyInt(row.columns), DEFAULT_THEME.columns),
      bg_image_url |-> IF row.bg_image_url.t = "str" THEN row.bg_image_url ELSE PyNone ]

(***************************************************************************)
(* wallpaper.py: render_wallpaper_png up to the pixel buffer               *)
(***************************************************************************)
\* A render that always reads the process date.
ResolveToday_process_date(today_arg, process_date) == process_date

\* today = today or dt.date.today()
ResolveToday(today_arg, process_date) ==
    IF today_arg = PyNone THEN process_date ELSE today_arg.v

\* The palette the renderer derives from the theme.
RenderColors(theme) ==
    LET bg_rgb == hex_to_rgb(theme.bg_color, <<13, 17, 23>>)
        empty_hex == normalize_hex_color(theme.empty_color, PyNone)
        empty_rgb == IF empty_hex # PyNone
                     THEN hex_to_rgb(empty_hex, derive_empty_color(bg_rgb))
                     ELSE derive_empty_color(bg_rgb)
    IN [ bg_rgb |-> bg_rgb,
         empty_rgb |-> empty_rgb,
         future_rgb |-> blend_rgb(empty_rgb, bg_rgb, 50),
         mood_colors |->
             [ level \in MoodLevels |->
                 hex_to_rgb(theme.mood_colors[level],
                            hex_to_rgb(DEFAULT_THEME.mood_colors[level], <<0, 0, 0>>)) ] ]

\* A day loop that counts today among the future days.
DotKind_today_is_future(moods, date_key, today) ==
    IF date_key \in DOMAIN moods THEN "mood"
    ELSE IF ~DateAfter(today, date_key) THEN "future"
    ELSE "empty"

\* The kind of the day with date key date_key: the loop's if/elif/else.
DotKind(moods, date_key, today) ==
    IF date_key \in DOMAIN moods THEN "mood"
    ELSE IF DateAfter(date_key, today) THEN "future"
    ELSE "empty"

\* A day loop that leaves the weekday of January 1 out.
DayCellUnshifted(lay, day_index) ==
    [ col_index |-> day_index % lay.grid_columns,
      row_index |-> day_index \div lay.grid_columns,
      x |-> lay.left + (day_index % lay.grid_columns) * (lay.slot_size + lay.gap)
                + lay.dot_inset,
      y |-> lay.top + (day_index \div lay.grid_columns) * (lay.slot_size + lay.gap)
                + lay.dot_inset ]

\* The day loop, lines 355-357 and 373-374: the cell of day day_index and
\* the top left corner of its dot.
DayCell(lay, day_index) ==
    LET shifted_index == day_index + lay.jan1_offset
        col_index == shifted_index % lay.grid_columns
        row_index == shifted_index \div lay.grid_columns
    IN [ col_index |-> col_index, row_index |-> row_index,
         x |-> lay.left + col_index * (lay.slot_size + lay.gap) + lay.dot_inset,
         y |-> lay.top + row_index * (lay.slot_size + lay.gap) + lay.dot_inset ]

\* The dates that cursor takes from the first day of a month while
\* cursor.year == year, one_day added each time: month by month to
\* December 31.
RECURSIVE cursor_dates(_, _)
cursor_dates(year, month) ==
    IF month > 12 THEN << >>
    ELSE [day \in 1..MonthLength(year, month) |-> <<year, month, day>>]
             \o cursor_dates(year, month + 1)

\* The day loop: the date keys, cells and dots in the order painted.
day_loop(lay, year) ==
    LET dates == cursor_dates(year, 1)
    IN [ n \in 1..Len(dates) |->
           [ date_key |-> dates[n], size |-> lay.dot_size,
             cell |-> DayCell(lay, n - 1) ] ]

\* One iteration of the day loop: the dot of day day_index.
DayDot(colors, lay, moods, today, day_index) ==
    LET date_key == DateKeyOfIndex(today[1], day_index)
        kind == DotKind(moods, date_key, today)
        color == IF kind = "mood" THEN
                     (IF moods[date_key].level \in MoodLevels
                      THEN colors.mood_colors[moods[date_key].level]
                      ELSE colors.empty_rgb)
                 ELSE IF kind = "future" THEN colors.future_rgb
                 ELSE colors.empty_rgb
        x == DayCell(lay, day_index).x
        y == DayCell(lay, day_index).y
        center_x == x + (lay.dot_size \div 2)
        center_y == y + (lay.dot_size \div 2)
    IN [ x |-> x, y |-> y, size |-> lay.dot_size, radius |-> lay.radius,
         kind |-> kind,
         color |-> apply_dot_readability_treatment(color, colors.bg_rgb, kind,
                                                   center_x, center_y) ]

\* The render up to the pixel buffer, as the list of what is painted: the
\* background gradient and then one fill_cell per day, in day order.
RenderScene(theme, moods, today) ==
    LET year == today[1]
        colors == RenderColors(theme)
        lay == GridLayout(normalize_theme_columns(PyInt(theme.columns), DEFAULT_THEME.columns),
                          theme.spacing, theme.position,
                          normalize_theme_avoid_lock_screen_ui(
                              PyBool(theme.avoid_lock_screen_ui),
                              DEFAULT_THEME.avoid_lock_screen_ui),
                          theme.shape, year)
    IN [ bg_rgb |-> colors.bg_rgb,
         gradient |-> derive_background_gradient(colors.bg_rgb),
         lay |-> lay,
         dots |-> [ day_index \in 0..(days_in_year(year) - 1) |->
                      DayDot(colors, lay, moods, today, day_index) ] ]

(***************************************************************************)
(* wallpaper.py: rasteriser                                                *)
(***************************************************************************)
\* (px, py) within the quarter circle of radius r - 0.5: 4 (px^2 + py^2) <=
\* (2 r - 1)^2.
in_corner(px, py, radius) ==
    4 * ((px * px) + (py * py)) <= (2 * radius - 1) * (2 * radius - 1)

\* A fill_cell that cuts a diamond out of the cell.
point_in_rounded_rect_diamond(local_x, local_y, w, h, radius) ==
    IF radius <= 0 THEN TRUE
    ELSE LET dx == IF 2 * local_x >= w THEN 2 * local_x - w ELSE w - 2 * local_x
             dy == IF 2 * local_y >= h THEN 2 * local_y - h ELSE h - 2 * local_y
         IN dx + dy <= w

point_in_rounded_rect(local_x, local_y, w, h, radius) ==
    IF radius <= 0 THEN TRUE
    ELSE IF local_x >= radius /\ local_x < w - radius THEN TRUE
    ELSE IF local_y >= radius /\ local_y < h - radius THEN TRUE
    ELSE IF local_x < radius /\ local_y < radius
        THEN in_corner(local_x - (radius - 1), local_y - (radius - 1), radius)
    ELSE IF local_x >= w - radius /\ local_y < radius
        THEN in_corner(local_x - (w - radius), local_y - (radius - 1), radius)
    ELSE IF local_x < radius /\ local_y >= h - radius
        THEN in_corner(local_x - (radius - 1), local_y - (h - radius), radius)
    ELSE in_corner(local_x - (w - radius), local_y - (h - radius), radius)

\* Whether fill_cell for this dot sets pixel (px, py).
FillCellSets(dot, px, py) ==
    /\ px >= Max(0, dot.x) /\ px < Min(WALLPAPER_WIDTH, dot.x + dot.size)
    /\ py >= Max(0, dot.y) /\ py < Min(WALLPAPER_HEIGHT, dot.y + dot.size)
    /\ point_in_rounded_rect(px - dot.x, py - dot.y, dot.size, dot.size, dot.radius)

\* fill_background_gradient: the colour of row y.
GradientRow(scene, y) ==
    LET denominator == Max(1, WALLPAPER_HEIGHT - 1)
        top_rgb == scene.gradient[1]
        bottom_rgb == scene.gradient[2]
    IN << blend_channel_row(top_rgb[1], bottom_rgb[1], y, denominator),
          blend_channel_row(top_rgb[2], bottom_rgb[2], y, denominator),
          blend_channel_row(top_rgb[3], bottom_rgb[3], y, denominator) >>

\* Floor division, for a possibly negative numerator.
FloorDiv(n, d) == IF n >= 0 THEN n \div d ELSE -((-n + d - 1) \div d)

\* Days whose dot's bounding square contains (px, py): at most one, in the
\* column and row whose pitch interval holds px and py (the layout keeps
\* every dot inside its slot).
DaysAround(scene, px, py) ==
    LET lay == scene.lay
        pitch == lay.slot_size + lay.gap
        c == FloorDiv(px - lay.left - lay.dot_inset, pitch)
        r == FloorDiv(py - lay.top - lay.dot_inset, pitch)
        day == r * lay.grid_columns + c - lay.jan1_offset
    IN IF /\ c >= 0 /\ c < lay.grid_columns
          /\ r >= 0 /\ r < lay.grid_rows
          /\ day \in DOMAIN scene.dots
       THEN {day} ELSE {}

SetMax(S) == CHOOSE m \in S : \A n \in S : n <= m

\* The RGB bytes of pixel (px, py) of the buffer after the day loop: the
\* last fill_cell that set it, else the gradient (alpha is always 255).
PixelAt(scene, px, py) ==
    LET painted == { i \in DaysAround(scene, px, py) : FillCellSets(scene.dots[i], px, py) }
    IN IF painted = {} THEN GradientRow(scene, py)
       ELSE scene.dots[SetMax(painted)].color


(***************************************************************************)
(* wallpaper.py: PNG encoder.  Bytes are the integers 0..255; a 32 bit     *)
(* checksum is the pair <<high 16 bits, low 16 bits>>.                     *)
(***************************************************************************)
RECURSIVE Xor(_, _)
Xor(a, b) ==
    IF a = 0 THEN b
    ELSE IF b = 0 THEN a
    ELSE 2 * Xor(a \div 2, b \div 2) + ((a + b) % 2)

\* One bit of the reflected CRC-32 (polynomial EDB88320).
CrcShift(c) ==
    LET hi == c[1] \div 2
        lo == (c[2] \div 2) + 32768 * (c[1] % 2)
    IN IF c[2] % 2 = 1 THEN <<Xor(hi, 60856), Xor(lo, 33568)>> ELSE <<hi, lo>>

CrcByte(c, byte) ==
    CrcShift(CrcShift(CrcShift(CrcShift(
        CrcShift(CrcShift(CrcShift(CrcShift(<<c[1], Xor(c[2], byte)>>))))))))

RECURSIVE CrcFold(_, _, _)
\* (The test on c makes the running value be computed at every step.)
CrcFold(c, data, i) ==
    IF i > Len(data) \/ c[1] < 0 THEN c
    ELSE CrcFold(CrcByte(c, data[i]), data, i + 1)

Not32(c) == <<65535 - c[1], 65535 - c[2]>>

\* zlib.crc32(data, value): the running CRC-32 continued over data.
zlib_crc32(data, value) == Not32(CrcFold(Not32(value), data, 1))

\* struct.pack(">I", n), for n below 2^31.
struct_pack_I(n) ==
    << n \div 16777216, (n \div 65536) % 256, (n \div 256) % 256, n % 256 >>

\* struct.pack(">I", crc) of a checksum pair.
struct_pack_I32(c) == << c[1] \div 256, c[1] % 256, c[2] \div 256, c[2] % 256 >>

\* A png_chunk whose CRC leaves out the chunk type.
png_chunk_crc_of_data(chunk_type, data) ==
    struct_pack_I(Len(data)) \o chunk_type \o data
        \o struct_pack_I32(zlib_crc32(data, <<0, 0>>))

png_chunk(chunk_type, data) ==
    LET length == struct_pack_I(Len(data))
        crc == zlib_crc32(data, zlib_crc32(chunk_type, <<0, 0>>))
    IN length \o chunk_type \o data \o struct_pack_I32(crc)

RECURSIVE AdlerFold(_, _, _)
\* <<b, a>> of Adler-32 after the bytes data[i..].
AdlerFold(ba, data, i) ==
    IF i > Len(data) \/ ba[1] < 0 THEN ba
    ELSE LET a == (ba[2] + data[i]) % 65521
         IN AdlerFold(<<(ba[1] + a) % 65521, a>>, data, i + 1)

\* zlib.compress(data, level=6).  The library is not part of the
\* repository; it is modelled by the zlib stream that stores the data in one
\* uncompressed deflate block (data shorter than 65536 bytes): a stream
\* every inflater expands to data, with its own header, length and
\* Adler-32 check.
zlib_compress(data) ==
    LET n == Len(data)
    IN <<120, 1, 1, n % 256, n \div 256, 255 - (n % 256), 255 - (n \div 256)>>
           \o data \o struct_pack_I32(AdlerFold(<<0, 1>>, data, 1))

\* The scanlines of rows y..height-1: a filter byte 0 and the row's bytes.
RECURSIVE Scanlines(_, _, _, _)
Scanlines(width, height, rgba, y) ==
    IF y >= height THEN <<>>
    ELSE LET row_stride == width * 4
             start == y * row_stride
         IN <<0>> \o SubSeq(rgba, start + 1, Min(Len(rgba), start + row_stride))
                \o Scanlines(width, height, rgba, y + 1)

PngSignature == <<137, 80, 78, 71, 13, 10, 26, 10>>

IHDR == <<73, 72, 68, 82>>
IDAT == <<73, 68, 65, 84>>
IEND == <<73, 69, 78, 68>>

\* struct.pack(">IIBBBBB", width, height, 8, 6, 0, 0, 0)
IhdrPayload(width, height) ==
    struct_pack_I(width) \o struct_pack_I(height) \o <<8, 6, 0, 0, 0>>

\* The part of encode_png_rgba's result that precedes the IDAT chunk.
PngHead(width, height) == PngSignature \o png_chunk(IHDR, IhdrPayload(width, height))

encode_png_rgba(width, height, rgba) ==
    PngHead(width, height)
        \o png_chunk(IDAT, zlib_compress(Scanlines(width, height, rgba, 0)))
        \o png_chunk(IEND, <<>>)

(***************************************************************************)
(* State.                                                                  *)
(*  fin, fout      the argument and the result of a directly called pure   *)
(*                 function (resolve_dot_size, the layout, ...)            *)
(*  rq             the arguments of a render_wallpaper_png call            *)
(*  procDate       dt.date.today() of the process                          *)
(*  shots          the renders of rq so far, oldest first: the process     *)
(*                 date at the call and what the call painted              *)
(*  cache          cache.py's _cache: per user None or the stored entry    *)
(*  calls          the direct calls of the cache functions so far, with    *)
(*                 the process date at the call and what a get returned    *)
(*  clock          the last reading of dt.datetime.now(dt.UTC), in         *)
(*                 microseconds since the user was created                 *)
(*  db             the committed rows of the user: users.updated_at, the   *)
(*                 themes row and the moods rows                           *)
(*  wreq, ureq     the GET /w/{token} requests and the update requests     *)
(*                 (PUT /theme, PUT and DELETE /moods/{date}) in flight:   *)
(*                 the position of each in its handler and its locals;     *)
(*                 of an answered GET also whether the cache answered it   *)
(*                 and on which day                                        *)
(*  hist           history: the content of db after each commit, oldest    *)
(*                 first                                                   *)
(*  completed      history: the latest entry of hist whose update has      *)
(*                 answered its client                                     *)
(***************************************************************************)
VARIABLES fin, fout, rq, procDate, shots,
          cache, calls, clock, db, wreq, ureq, hist, completed, rate_limiter

backendVars == <<cache, calls, clock, db, wreq, ureq, hist, completed, rate_limiter>>

vars == <<fin, fout, rq, procDate, shots, backendVars>>

NoValue == [t |-> "none"]

IdlePure == fin = NoValue /\ fout = NoValue

\* A date outside every modelled year, for the specifications in which the
\* process date is not read.
NoDate == <<0, 1, 1>>

IdleRender == rq = NoValue /\ procDate = NoDate /\ shots = <<>>

UserIds == {"u1", "u2"}

EmptyCache == [user_id \in UserIds |-> PyNone]

\* No cache call, no request and no user row: the specifications of the pure
\* functions.
IdleBackend ==
    /\ cache = EmptyCache /\ calls = <<>>
    /\ clock = 0 /\ db = NoValue
    /\ wreq = <<>> /\ ureq = <<>>
    /\ hist = <<>> /\ completed = 0
    /\ rate_limiter = NoValue

(***************************************************************************)
(* SpecLayout: the layout of render_wallpaper_png for every stored theme   *)
(* geometry and year.                                                      *)
(***************************************************************************)
Positions == {"clock", "center"}

Shapes == {"rounded", "square", "rough"}

LayoutInputs ==
    [ t : {"layout"}, columns : MinColumns..MaxColumns, spacing : SpacingKeys,
      position : Positions, avoid_lock_screen_ui : BOOLEAN, year : Years ]

InitLayout == fin \in LayoutInputs /\ fout = NoValue /\ IdleRender /\ IdleBackend

ResolveLayout ==
    /\ fin.t = "layout" /\ fout = NoValue
    /\ fout' = GridLayout(fin.columns, fin.spacing, fin.position,
                          fin.avoid_lock_screen_ui, "rounded", fin.year)
    /\ UNCHANGED <<fin, rq, procDate, shots, backendVars>>

SpecLayout == InitLayout /\ [][ResolveLayout]_vars

(***************************************************************************)
(* SpecDot: resolve_dot_size called directly.                              *)
(***************************************************************************)
\* Largest slot size drawn (the layout produces 23..80).
MaxSlot == 90

DotInputs ==
    [ t : {"dot"}, slot_size : 2..MaxSlot, spacing : SpacingKeys,
      columns : MinColumns..MaxColumns ]

InitDot == fin \in DotInputs /\ fout = NoValue /\ IdleRender /\ IdleBackend

ResolveDot ==
    /\ fin.t = "dot" /\ fout = NoValue
    /\ fout' = PyInt(resolve_dot_size(fin.slot_size, fin.spacing, fin.columns))
    /\ UNCHANGED <<fin, rq, procDate, shots, backendVars>>

SpecDot == InitDot /\ [][ResolveDot]_vars

(***************************************************************************)
(* SpecGap: resolve_effective_gap on every spacing key, one that is not in *)
(* the table included, and every column count.                             *)
(***************************************************************************)
GapInputs ==
    [ t : {"gap"}, spacing : SpacingKeys \cup {"loose"},
      columns : MinColumns..MaxColumns ]

InitGap == fin \in GapInputs /\ fout = NoValue /\ IdleRender /\ IdleBackend

ResolveGap ==
    /\ fin.t = "gap" /\ fout = NoValue
    /\ fout' = PyInt(resolve_effective_gap(fin.spacing, fin.columns))
    /\ UNCHANGED <<fin, rq, procDate, shots, backendVars>>

SpecGap == InitGap /\ [][ResolveGap]_vars


(***************************************************************************)
(* SpecPlace: the day loop of render_wallpaper_png for every stored theme  *)
(* geometry and year.                                                      *)
(***************************************************************************)
PlaceInputs ==
    [ t : {"place"}, columns : MinColumns..MaxColumns, spacing : SpacingKeys,
      position : Positions, avoid_lock_screen_ui : BOOLEAN, year : Years ]

InitPlace == fin \in PlaceInputs /\ fout = NoValue /\ IdleRender /\ IdleBackend

PlaceDays ==
    /\ fin.t = "place" /\ fout = NoValue
    /\ fout' = LET lay == GridLayout(fin.columns, fin.spacing, fin.position,
                                    fin.avoid_lock_screen_ui, "rounded", fin.year)
               IN [ lay |-> lay,
                    painted |-> day_loop(lay, fin.year) ]
    /\ UNCHANGED <<fin, rq, procDate, shots, backendVars>>

SpecPlace == InitPlace /\ [][PlaceDays]_vars

(***************************************************************************)
(* SpecEmpty: derive_empty_color called directly on backgrounds whose      *)
(* channels are the values that a blend leaves alone at either end (0..3,  *)
(* 253..255), their neighbours, and values around the luminance 128.       *)
(***************************************************************************)
ChannelSamples == (0..5) \cup {64, 100, 127, 128, 129, 150, 200} \cup (250..255)

EmptyInputs == [t : {"empty"}, bg_rgb : ChannelSamples \X ChannelSamples \X ChannelSamples]

InitEmpty == fin \in EmptyInputs /\ fout = NoValue /\ IdleRender /\ IdleBackend

DeriveEmpty ==
    /\ fin.t = "empty" /\ fout = NoValue
    /\ fout' = derive_empty_color(fin.bg_rgb)
    /\ UNCHANGED <<fin, rq, procDate, shots, backendVars>>

SpecEmpty == InitEmpty /\ [][DeriveEmpty]_vars

(***************************************************************************)
(* SpecRadius: the layout of render_wallpaper_png for every stored theme   *)
(* geometry, every year and the shapes a theme can carry.                  *)
(***************************************************************************)
\* theme.get("shape"): the three shapes of the API, a value that is none of
\* them, and the None of a theme without the key, written "None".
RadiusShapes == Shapes \cup {"blob", "None"}

RadiusInputs ==
    [ t : {"radius"}, columns : MinColumns..MaxColumns, spacing : SpacingKeys,
      avoid_lock_screen_ui : BOOLEAN, shape : RadiusShapes, year : Years ]

InitRadius == fin \in RadiusInputs /\ fout = NoValue /\ IdleRender /\ IdleBackend

ResolveRadius ==
    /\ fin.t = "radius" /\ fout = NoValue
    /\ fout' = GridLayout(fin.columns, fin.spacing, "clock", fin.avoid_lock_screen_ui,
                          fin.shape, fin.year)
    /\ UNCHANGED <<fin, rq, procDate, shots, backendVars>>

SpecRadius == InitRadius /\ [][ResolveRadius]_vars

(***************************************************************************)
(* SpecRender: render_wallpaper_png called repeatedly with the same        *)
(* arguments while the process date moves on.                              *)
(***************************************************************************)
PyDate(d) == [t |-> "date", v |-> d]

\* Renders of one request kept in the history.
MaxRenders == 2

LightBg == PyStr(<<"#", "F", "5", "F", "0", "E", "6">>)

RenderThemes ==
    { [DEFAULT_THEME EXCEPT !.columns = c, !.shape = s,
                            !.avoid_lock_screen_ui = a, !.bg_color = b] :
        c \in {MinColumns, DEFAULT_THEME.columns, MaxColumns},
        s \in {"rounded", "square"},
        a \in BOOLEAN,
        b \in {DEFAULT_THEME.bg_color, LightBg} }

RenderMoods ==
    { <<>>,
      (<<2026, 2, 14>> :> [level |-> 5]),
      (<<2026, 1, 3>> :> [level |-> 2]) @@ (<<2026, 2, 21>> :> [level |-> 1]) }

RenderTodays == {PyNone, PyDate(<<2026, 2, 20>>), PyDate(<<2024, 3, 1>>)}

ProcessDates == {<<2026, 2, 20>>, <<2027, 1, 1>>}

RenderInputs ==
    [ t : {"render"}, theme : RenderThemes, moods : RenderMoods, today : RenderTodays ]

InitRender ==
    /\ rq \in RenderInputs
    /\ procDate \in ProcessDates
    /\ shots = <<>>
    /\ IdlePure
    /\ IdleBackend

\* render_wallpaper_png(user, today) up to the pixel buffer.
Render ==
    /\ rq.t = "render" /\ Len(shots) < MaxRenders
    /\ shots' = Append(shots,
                       [ process_date |-> procDate,
                         scene |-> RenderScene(rq.theme, rq.moods,
                                               ResolveToday(rq.today, procDate)) ])
    /\ UNCHANGED <<fin, fout, rq, procDate, backendVars>>

\* Midnight passes, once or many times.
AdvanceDate ==
    /\ procDate # NoDate
    /\ \E d \in ProcessDates : DateAfter(d, procDate) /\ procDate' = d
    /\ UNCHANGED <<fin, fout, rq, shots, backendVars>>

NextRender == Render \/ AdvanceDate

SpecRender == InitRender /\ [][NextRender]_vars

(***************************************************************************)
(* SpecTreat: apply_dot_readability_treatment called for the same mood     *)
(* dot with its centre inside and outside the clock-safe box.              *)
(***************************************************************************)
ChannelGrid == {0, 128, 255}

GridColors == { <<r, g, b>> : r \in ChannelGrid, g \in ChannelGrid, b \in ChannelGrid }

MoodColorSamples ==
    GridColors
        \cup { hex_to_rgb(DEFAULT_THEME.mood_colors[level], <<0, 0, 0>>) : level \in MoodLevels }
        \cup { <<255, 70, 90>>, <<0, 0, 1>>, <<90, 93, 90>> }

BgColorSamples ==
    GridColors
        \cup { hex_to_rgb(DEFAULT_THEME.bg_color, <<0, 0, 0>>), hex_to_rgb(LightBg, <<0, 0, 0>>),
               <<20, 24, 30>>, <<0, 0, 2>>, <<88, 94, 88>> }

\* Centres inside the clock-safe box: its first and last pixel and its
\* middle.
InsideCenters ==
    { <<clock_safe_box[1], clock_safe_box[2]>>,
      <<(clock_safe_box[1] + clock_safe_box[3]) \div 2,
        (clock_safe_box[2] + clock_safe_box[4]) \div 2>>,
      <<clock_safe_box[3] - 1, clock_safe_box[4] - 1>> }

\* Centres outside it: past its right and bottom edges, and before its left
\* edge.
OutsideCenters ==
    { <<clock_safe_box[3], clock_safe_box[4] - 1>>,
      <<clock_safe_box[3] - 1, clock_safe_box[4]>>,
      <<clock_safe_box[1] - 1, clock_safe_box[2]>> }

TreatInputs ==
    [ t : {"treat"}, color : MoodColorSamples, bg_rgb : BgColorSamples,
      inside : InsideCenters, outside : OutsideCenters ]

InitTreat == fin \in TreatInputs /\ fout = NoValue /\ IdleRender /\ IdleBackend

TreatMoodDot ==
    /\ fin.t = "treat" /\ fout = NoValue
    /\ fout' = [ inside |-> apply_dot_readability_treatment(
                                fin.color, fin.bg_rgb, "mood", fin.inside[1], fin.inside[2]),
                 outside |-> apply_dot_readability_treatment(
                                fin.color, fin.bg_rgb, "mood", fin.outside[1], fin.outside[2]) ]
    /\ UNCHANGED <<fin, rq, procDate, shots, backendVars>>

SpecTreat == InitTreat /\ [][TreatMoodDot]_vars

(***************************************************************************)
(* SpecPng: encode_png_rgba called on small pixel buffers, and the head of *)
(* its result for the wallpaper's own size (render_wallpaper_png's call).  *)
(***************************************************************************)
\* Most pixels of a buffer encoded in full.
MaxPngPixels == 4

PixelSamples == { <<13, 17, 23, 255>>, <<59, 130, 246, 255>>, <<0, 0, 0, 0>> }

RECURSIVE Flatten(_)
Flatten(pixels) ==
    IF pixels = <<>> THEN <<>> ELSE Head(pixels) \o Flatten(Tail(pixels))

PngSizes ==
    { wh \in (1..MaxPngPixels) \X (1..MaxPngPixels) : wh[1] * wh[2] <= MaxPngPixels }

PngInputs ==
    UNION { { [ t |-> "png", width |-> wh[1], height |-> wh[2], rgba |-> Flatten(px) ] :
                px \in [1..(wh[1] * wh[2]) -> PixelSamples] } :
            wh \in PngSizes }

PngHeadInput == [ t |-> "png_head", width |-> WALLPAPER_WIDTH, height |-> WALLPAPER_HEIGHT ]

InitPng == fin \in (PngInputs \cup {PngHeadInput}) /\ fout = NoValue /\ IdleRender /\ IdleBackend

EncodePng ==
    /\ fin.t = "png" /\ fout = NoValue
    /\ fout' = [ t |-> "bytes", v |-> encode_png_rgba(fin.width, fin.height, fin.rgba) ]
    /\ UNCHANGED <<fin, rq, procDate, shots, backendVars>>

EncodeWallpaperHead ==
    /\ fin.t = "png_head" /\ fout = NoValue
    /\ fout' = [ t |-> "bytes", v |-> PngHead(fin.width, fin.height) ]
    /\ UNCHANGED <<fin, rq, procDate, shots, backendVars>>

NextPng == EncodePng \/ EncodeWallpaperHead

SpecPng == InitPng /\ [][NextPng]_vars

(***************************************************************************)
(* cache.py: the per-process wallpaper cache.  today is dt.date.today()    *)
(* at the call.                                                            *)
(***************************************************************************)
PyBytes(b) == [t |-> "bytes", v |-> b]

\* A lookup that does not look at the day of the entry.
get_cached_wallpaper_any_day(c, user_id, source_revision, today) ==
    LET entry == c[user_id]
    IN IF entry = PyNone THEN PyNone
       ELSE IF entry.cached_revision # source_revision THEN PyNone
       ELSE entry.png_bytes

get_cached_wallpaper(c, user_id, source_revision, today) ==
    LET entry == c[user_id]
    IN IF entry = PyNone THEN PyNone
       ELSE IF entry.render_date # today THEN PyNone
       ELSE IF entry.cached_revision # source_revision THEN PyNone
       ELSE entry.png_bytes

set_cached_wallpaper(c, user_id, source_revision, png_bytes, today) ==
    [c EXCEPT ![user_id] = [ render_date |-> today,
                             cached_revision |-> source_revision,
                             png_bytes |-> png_bytes ]]

invalidate_wallpaper_cache(c, user_id) == [c EXCEPT ![user_id] = PyNone]

(***************************************************************************)
(* SpecCache: the three cache functions called directly, in any order, for *)
(* two users, while the process date moves on.                             *)
(***************************************************************************)
\* Calls kept in the history.
MaxCalls == 3

\* users.updated_at values, as microseconds (see now_iso below).
CacheRevisions == {1, 2}

CachePngs ==
    { PyBytes(encode_png_rgba(1, 1, <<13, 17, 23, 255>>)),
      PyBytes(encode_png_rgba(1, 1, <<59, 130, 246, 255>>)) }

InitCache ==
    /\ cache = EmptyCache /\ calls = <<>>
    /\ procDate \in ProcessDates
    /\ clock = 0 /\ db = NoValue /\ wreq = <<>> /\ ureq = <<>>
    /\ hist = <<>> /\ completed = 0
    /\ rate_limiter = NoValue
    /\ IdlePure /\ rq = NoValue /\ shots = <<>>

CallGet ==
    /\ Len(calls) < MaxCalls
    /\ \E user_id \in UserIds, source_revision \in CacheRevisions :
           calls' = Append(calls,
                           [ op |-> "get", user_id |-> user_id,
                             source_revision |-> source_revision, today |-> procDate,
                             result |-> get_cached_wallpaper(cache, user_id,
                                                             source_revision, procDate) ])
    /\ UNCHANGED <<fin, fout, rq, procDate, shots, cache,
                   clock, db, wreq, ureq, hist, completed, rate_limiter>>

CallSet ==
    /\ Len(calls) < MaxCalls
    /\ \E user_id \in UserIds, source_revision \in CacheRevisions, png_bytes \in CachePngs :
           /\ cache' = set_cached_wallpaper(cache, user_id, source_revision,
                                            png_bytes, procDate)
           /\ calls' = Append(calls,
                              [ op |-> "set", user_id |-> user_id,
                                source_revision |-> source_revision, today |-> procDate,
                                png_bytes |-> png_bytes ])
    /\ UNCHANGED <<fin, fout, rq, procDate, shots, clock, db, wreq, ureq, hist, completed,
                   rate_limiter>>

CallInvalidate ==
    /\ Len(calls) < MaxCalls
    /\ \E user_id \in UserIds :
           /\ cache' = invalidate_wallpaper_cache(cache, user_id)
           /\ calls' = Append(calls, [ op |-> "invalidate", user_id |-> user_id,
                                       today |-> procDate ])
    /\ UNCHANGED <<fin, fout, rq, procDate, shots, clock, db, wreq, ureq, hist, completed,
                   rate_limiter>>

NextCache == CallGet \/ CallSet \/ CallInvalidate \/ AdvanceDate

SpecCache == InitCache /\ [][NextCache]_vars

(***************************************************************************)
(* SpecService: GET /w/{token} (routes/wallpaper.py) and the updates       *)
(* PUT /theme (routes/theme.py), PUT and DELETE /moods/{date}              *)
(* (routes/moods.py) of one user, each request on its own worker thread.   *)
(* A step is one SQL statement, one cache call or one reading of the       *)
(* clock; a statement sees what has been committed; the statements an      *)
(* update writes take effect together when its connection commits.  Every  *)
(* update bears a valid session (require_auth touches the sessions table   *)
(* only) and a valid date key and level.  A local of a request is kept     *)
(* while the handler still reads it.  All of it happens within one day.    *)
(***************************************************************************)
\* Largest clock reading.
MaxClock == 2

ServiceUser == "u1"

WallpaperIds == {"w1", "w2"}

UpdateIds == {"p1", "p2"}

\* Requests of a kind are named in the order in which they reach the server.
Earlier(id) == IF id = "w2" THEN {"w1"} ELSE IF id = "p2" THEN {"p1"} ELSE {}

MoodDay == <<2026, 2, 14>>

ThemePayloads == { ("columns" :> PyInt(MinColumns)) }

\* utils.py: dt.datetime.now(dt.UTC).isoformat() names the microsecond read
\* from the clock, one text per microsecond: the reading stands for the text.
now_iso(reading) == reading

\* INSERT INTO moods ... ON CONFLICT(user_id, date_key) DO UPDATE.
upsert_mood(moods, date_key, level) ==
    [ d \in (DOMAIN moods) \cup {date_key} |->
        IF d = date_key THEN [level |-> level] ELSE moods[d] ]

\* DELETE FROM moods WHERE user_id = %s AND date_key = %s.
delete_mood(moods, date_key) ==
    IF (DOMAIN moods) \ {date_key} = {} THEN <<>>
    ELSE [ d \in (DOMAIN moods) \ {date_key} |-> moods[d] ]

\* The PNG render_wallpaper_png({"theme", "moods"}) returns on a process
\* date, named by what it was rendered from: its bytes are
\* encode_png_rgba of the pixels of RenderScene(theme, moods, today).
render_wallpaper_png(theme, moods, process_date) ==
    PyBytes([ theme |-> theme, moods |-> moods,
              today |-> ResolveToday(PyNone, process_date) ])

IdleWallpaper ==
    [ pc |-> "idle", source_revision |-> PyNone, theme |-> PyNone, moods |-> PyNone,
      png_bytes |-> PyNone, response |-> PyNone, since |-> 0,
      from_cache |-> FALSE, served_on |-> NoDate ]

IdleUpdate ==
    [ pc |-> "idle", op |-> PyNone, current_theme |-> PyNone, timestamp |-> PyNone,
      version |-> 0 ]

\* The user was created with the default theme (create_user) at reading 0.
InitService ==
    /\ clock = 1
    /\ db = [ updated_at |-> now_iso(0),
              theme |-> normalize_theme_for_storage(DEFAULT_THEME),
              moods |-> <<>> ]
    /\ cache = EmptyCache /\ calls = <<>>
    /\ wreq = [w \in WallpaperIds |-> IdleWallpaper]
    /\ ureq = [u \in UpdateIds |-> IdleUpdate]
    /\ hist = << [theme |-> theme_from_row(db.theme), moods |-> db.moods] >>
    /\ completed = 1
    /\ rate_limiter = NoValue
    /\ procDate = <<2026, 2, 20>>
    /\ IdlePure /\ rq = NoValue /\ shots = <<>>

directVars == <<fin, fout, rq, shots, calls, rate_limiter>>

\* What the clock may show when it is read: the last reading or a later one.
Readings == clock .. Min(clock + 1, MaxClock)

\* wallpaper(): _get_user_for_wallpaper_token.
WallpaperReadUser(w) ==
    /\ wreq[w].pc = "idle" /\ \A e \in Earlier(w) : wreq[e].pc # "idle"
    /\ wreq' = [wreq EXCEPT ![w].pc = "lookup",
                            ![w].source_revision = db.updated_at,
                            ![w].since = completed]
    /\ UNCHANGED <<directVars, procDate, cache, clock, db, ureq, hist, completed>>

\* wallpaper(): get_cached_wallpaper and the return of the cached bytes.
WallpaperLookup(w) ==
    /\ wreq[w].pc = "lookup"
    /\ LET cached == get_cached_wallpaper(cache, ServiceUser,
                                          wreq[w].source_revision, procDate)
       IN wreq' = IF cached # PyNone
                  THEN [wreq EXCEPT ![w] = [IdleWallpaper EXCEPT !.pc = "done",
                                                                 !.response = cached,
                                                                 !.since = wreq[w].since,
                                                                 !.source_revision =
                                                                     wreq[w].source_revision,
                                                                 !.from_cache = TRUE,
                                                                 !.served_on = procDate]]
                  ELSE [wreq EXCEPT ![w].pc = "theme"]
    /\ UNCHANGED <<directVars, procDate, cache, clock, db, ureq, hist, completed>>

\* wallpaper(): get_theme.
WallpaperReadTheme(w) ==
    /\ wreq[w].pc = "theme"
    /\ wreq' = [wreq EXCEPT ![w].pc = "moods", ![w].theme = theme_from_row(db.theme)]
    /\ UNCHANGED <<directVars, procDate, cache, clock, db, ureq, hist, completed>>

\* wallpaper(): _get_moods_for_user, the last statement of the connection.
WallpaperReadMoods(w) ==
    /\ wreq[w].pc = "moods"
    /\ wreq' = [wreq EXCEPT ![w].pc = "render", ![w].moods = db.moods]
    /\ UNCHANGED <<directVars, procDate, cache, clock, db, ureq, hist, completed>>

\* wallpaper(): render_wallpaper_png, which reads the process date.
WallpaperRender(w) ==
    /\ wreq[w].pc = "render"
    /\ wreq' = [wreq EXCEPT ![w].pc = "store",
                            ![w].png_bytes = render_wallpaper_png(wreq[w].theme,
                                                                  wreq[w].moods, procDate),
                            ![w].theme = PyNone, ![w].moods = PyNone]
    /\ UNCHANGED <<directVars, procDate, cache, clock, db, ureq, hist, completed>>

\* wallpaper(): set_cached_wallpaper, which reads the process date again,
\* and the response.
WallpaperStore(w) ==
    /\ wreq[w].pc = "store"
    /\ cache' = set_cached_wallpaper(cache, ServiceUser, wreq[w].source_revision,
                                     wreq[w].png_bytes, procDate)
    /\ wreq' = [wreq EXCEPT ![w] = [IdleWallpaper EXCEPT !.pc = "done",
                                                         !.response = wreq[w].png_bytes,
                                                         !.since = wreq[w].since,
                                                         !.source_revision =
                                                             wreq[w].source_revision,
                                                         !.served_on = procDate]]
    /\ UNCHANGED <<directVars, procDate, clock, db, ureq, hist, completed>>

\* put_mood(): timestamp = now_iso(), the first step after require_auth.
PutMoodStamp(u) ==
    /\ ureq[u].pc = "idle" /\ \A e \in Earlier(u) : ureq[e].pc # "idle"
    /\ clock' \in Readings
    /\ ureq' = [ureq EXCEPT ![u].pc = "commit",
                            ![u].op = [ kind |-> "put_mood", date_key |-> MoodDay,
                                        level |-> 5 ],
                            ![u].timestamp = now_iso(clock')]
    /\ UNCHANGED <<directVars, procDate, cache, db, wreq, hist, completed>>

\* remove_mood(): timestamp = now_iso().
RemoveMoodStamp(u) ==
    /\ ureq[u].pc = "idle" /\ \A e \in Earlier(u) : ureq[e].pc # "idle"
    /\ clock' \in Readings
    /\ ureq' = [ureq EXCEPT ![u].pc = "commit",
                            ![u].op = [kind |-> "remove_mood", date_key |-> MoodDay],
                            ![u].timestamp = now_iso(clock')]
    /\ UNCHANGED <<directVars, procDate, cache, db, wreq, hist, completed>>

\* _put_theme_sync(): get_theme_for_user.
PutThemeReadCurrent(u) ==
    /\ ureq[u].pc = "idle" /\ \A e \in Earlier(u) : ureq[e].pc # "idle"
    /\ \E payload \in ThemePayloads :
           ureq' = [ureq EXCEPT ![u].pc = "stamp",
                                ![u].op = [kind |-> "put_theme", payload |-> payload],
                                ![u].current_theme = theme_from_row(db.theme)]
    /\ UNCHANGED <<directVars, procDate, cache, clock, db, wreq, hist, completed>>

\* _put_theme_sync(): timestamp = now_iso().
PutThemeStamp(u) ==
    /\ ureq[u].pc = "stamp"
    /\ clock' \in Readings
    /\ ureq' = [ureq EXCEPT ![u].pc = "commit", ![u].timestamp = now_iso(clock')]
    /\ UNCHANGED <<directVars, procDate, cache, db, wreq, hist, completed>>

\* The rows an update leaves when its connection commits: the moods or the
\* themes row it wrote and UPDATE users SET updated_at = timestamp.
CommittedRows(rows, request) ==
    LET op == request.op
    IN [ updated_at |-> request.timestamp,
         theme |-> IF op.kind = "put_theme"
                   THEN normalize_theme_for_storage(
                            apply_theme_patch(request.current_theme, op.payload))
                   ELSE rows.theme,
         moods |-> IF op.kind = "put_mood"
                   THEN upsert_mood(rows.moods, op.date_key, op.level)
                   ELSE IF op.kind = "remove_mood"
                   THEN delete_mood(rows.moods, op.date_key)
                   ELSE rows.moods ]

\* The exit of "with get_conn() as conn" in an update: conn.commit().
UpdateCommit(u) ==
    /\ ureq[u].pc = "commit"
    /\ db' = CommittedRows(db, ureq[u])
    /\ hist' = Append(hist, [theme |-> theme_from_row(db'.theme), moods |-> db'.moods])
    /\ ureq' = [ureq EXCEPT ![u] = [IdleUpdate EXCEPT !.pc = "invalidate",
                                                      !.version = Len(hist')]]
    /\ UNCHANGED <<directVars, procDate, cache, clock, wreq, completed>>

\* invalidate_wallpaper_cache(user_id) and the response of the update.
UpdateInvalidate(u) ==
    /\ ureq[u].pc = "invalidate"
    /\ cache' = invalidate_wallpaper_cache(cache, ServiceUser)
    /\ completed' = Max(completed, ureq[u].version)
    /\ ureq' = [ureq EXCEPT ![u] = [IdleUpdate EXCEPT !.pc = "done"]]
    /\ UNCHANGED <<directVars, procDate, clock, db, wreq, hist>>

NextService ==
    \/ \E w \in WallpaperIds :
           \/ WallpaperReadUser(w) \/ WallpaperLookup(w) \/ WallpaperReadTheme(w)
           \/ WallpaperReadMoods(w) \/ WallpaperRender(w) \/ WallpaperStore(w)
    \/ \E u \in UpdateIds :
           \/ PutMoodStamp(u) \/ RemoveMoodStamp(u)
           \/ PutThemeReadCurrent(u) \/ PutThemeStamp(u)
           \/ UpdateCommit(u) \/ UpdateInvalidate(u)

SpecService == InitService /\ [][NextService]_vars

(***************************************************************************)
(* SpecMidnight: the GET /w/{token} requests of SpecService with no update *)
(* in flight, while midnight passes at any point of a handler.             *)
(***************************************************************************)
NextMidnight ==
    \/ AdvanceDate
    \/ \E w \in WallpaperIds :
           \/ WallpaperReadUser(w) \/ WallpaperLookup(w) \/ WallpaperReadTheme(w)
           \/ WallpaperReadMoods(w) \/ WallpaperRender(w) \/ WallpaperStore(w)

SpecMidnight == InitService /\ [][NextMidnight]_vars

(***************************************************************************)
(* SpecPreview: GET /w/{token}/preview (routes/wallpaper.py), any number   *)
(* of times and with any query, next to GET /w/{token} and GET /theme      *)
(* (routes/theme.py) of the same user, with no update in flight.           *)
(***************************************************************************)
PreviewIds == {"v1"}

ThemeGetIds == {"t1"}

\* The query strings of a preview: request.query_params as a function of the
\* keys present; every value is a text.
PreviewQueries ==
    { <<>>,
      ("columns" :> PyStr(<<"7">>)) @@ ("shape" :> PyStr("square")),
      ("gridColumns" :> PyStr(<<"3", "1">>)) @@ ("avoidLockScreenUi" :> PyStr(<<"1">>)),
      ("columns" :> PyStr(<<"1", "0", "0">>))
          @@ ("avoid_lock_screen_ui" :> PyStr(<<"m", "a", "y", "b", "e">>)),
      ("avoid_lock_screen_ui" :> PyStr(<<"t", "r", "u", "e">>))
          @@ ("spacing" :> PyStr("wide"))
          @@ ("bg_color" :> PyStr(<<"#", "f", "f", "f", "f", "f", "f">>)) }

\* A preview patch that takes every key of the query.
build_preview_theme_patch_every_key(query_params) == query_params

\* _build_preview_theme_patch(request.query_params).
build_preview_theme_patch(query_params) ==
    LET taken == {"avoid_lock_screen_ui", "avoidLockScreenUi", "columns", "gridColumns"}
                     \cap DOMAIN query_params
    IN IF taken = {} THEN <<>> ELSE [key \in taken |-> query_params[key]]

\* theme.py: serialize_theme of a theme that has all its keys.
serialize_theme(theme) ==
    [ bg_color |-> theme.bg_color,
      mood_colors |-> [level \in MoodLevels |-> theme.mood_colors[level]],
      empty_color |-> theme.empty_color,
      shape |-> theme.shape,
      spacing |-> theme.spacing,
      position |-> theme.position,
      avoid_lock_screen_ui |->
          normalize_theme_avoid_lock_screen_ui(PyBool(theme.avoid_lock_screen_ui),
                                               DEFAULT_THEME.avoid_lock_screen_ui),
      columns |-> normalize_theme_columns(PyInt(theme.columns), DEFAULT_THEME.columns),
      bg_image_url |-> theme.bg_image_url ]

IdlePreview ==
    [ pc |-> "idle", query |-> PyNone, theme |-> PyNone, moods |-> PyNone,
      response |-> PyNone ]

IdleThemeGet == [ pc |-> "idle", response |-> PyNone ]

\* Themes a PUT /theme has stored before.
StoredThemes ==
    { DEFAULT_THEME,
      [DEFAULT_THEME EXCEPT !.columns = 18, !.avoid_lock_screen_ui = TRUE,
                            !.empty_color = LightBg] }

InitPreview ==
    /\ clock = 1
    /\ \E theme \in StoredThemes :
           db = [ updated_at |-> now_iso(0),
                  theme |-> normalize_theme_for_storage(theme),
                  moods |-> (MoodDay :> [level |-> 5]) ]
    /\ cache = EmptyCache /\ calls = <<>>
    /\ wreq = [ id \in WallpaperIds \cup PreviewIds \cup ThemeGetIds |->
                  IF id \in PreviewIds THEN IdlePreview
                  ELSE IF id \in ThemeGetIds THEN IdleThemeGet
                  ELSE IdleWallpaper ]
    /\ ureq = [u \in UpdateIds |-> IdleUpdate]
    /\ hist = << [theme |-> theme_from_row(db.theme), moods |-> db.moods] >>
    /\ completed = 1
    /\ rate_limiter = NoValue
    /\ procDate = <<2026, 2, 20>>
    /\ IdlePure /\ rq = NoValue /\ shots = <<>>

\* wallpaper_preview(): the query, _get_user_for_wallpaper_token (of which
\* only the user id is kept), get_theme and apply_theme_patch.  A preview
\* that has answered is followed by the next one.
PreviewReadTheme(v) ==
    /\ wreq[v].pc \in {"idle", "done"}
    /\ \E query \in PreviewQueries :
           LET preview_patch == build_preview_theme_patch(query)
               theme == theme_from_row(db.theme)
           IN wreq' = [wreq EXCEPT
                         ![v] = [IdlePreview EXCEPT
                                   !.pc = "moods", !.query = query,
                                   !.theme = IF DOMAIN preview_patch # {}
                                             THEN apply_theme_patch(theme, preview_patch)
                                             ELSE theme]]
    /\ UNCHANGED <<directVars, procDate, cache, clock, db, ureq, hist, completed>>

\* wallpaper_preview(): _get_moods_for_user.
PreviewReadMoods(v) ==
    /\ wreq[v].pc = "moods"
    /\ wreq' = [wreq EXCEPT ![v].pc = "render", ![v].moods = db.moods]
    /\ UNCHANGED <<directVars, procDate, cache, clock, db, ureq, hist, completed>>

\* wallpaper_preview(): render_wallpaper_png and the response.
PreviewRender(v) ==
    /\ wreq[v].pc = "render"
    /\ wreq' = [wreq EXCEPT
                  ![v] = [IdlePreview EXCEPT
                            !.pc = "done", !.query = wreq[v].query,
                            !.response = render_wallpaper_png(wreq[v].theme, wreq[v].moods,
                                                              procDate)]]
    /\ UNCHANGED <<directVars, procDate, cache, clock, db, ureq, hist, completed>>

\* _get_theme_sync(): get_theme_for_user and serialize_theme.
ThemeGet(g) ==
    /\ wreq[g].pc = "idle"
    /\ wreq' = [wreq EXCEPT ![g].pc = "done",
                            ![g].response = serialize_theme(theme_from_row(db.theme))]
    /\ UNCHANGED <<directVars, procDate, cache, clock, db, ureq, hist, completed>>

NextPreview ==
    \/ \E v \in PreviewIds :
           PreviewReadTheme(v) \/ PreviewReadMoods(v) \/ PreviewRender(v)
    \/ \E g \in ThemeGetIds : ThemeGet(g)
    \/ \E w \in WallpaperIds :
           \/ WallpaperReadUser(w) \/ WallpaperLookup(w) \/ WallpaperReadTheme(w)
           \/ WallpaperReadMoods(w) \/ WallpaperRender(w) \/ WallpaperStore(w)

SpecPreview == InitPreview /\ [][NextPreview]_vars

(***************************************************************************)
(* SpecPatch: apply_theme_patch called again and again, starting from the  *)
(* default theme, each time on the theme the call before returned.         *)
(***************************************************************************)
BadColours ==
    { PyStr(<<"z", "z", "z">>), PyStr(<<"#", "1", "2", "3", "4", "5", "g">>), PyInt(5) }

WhiteText == PyStr(<<"#", "F", "F", "F", "F", "F", "F">>)

BareText == PyStr(<<" ", "a", "b", "c", "d", "e", "f", " ">>)

BadWords == { PyStr("bad"), PyInt(5), PyNone }

BadAvoids == { PyStr(<<"m", "a", "y", "b", "e">>), PyInt(2), PyNone }

BadColumns ==
    { PyInt(100), PyInt(6), PyBool(TRUE), PyStr(<<"x">>), PyStr(<< >>), PyNone,
      [t |-> "float", v |-> <<"1", "0", ".", "5">>] }

PayloadsOf(key, values) == { (key :> value) : value \in values }

PatchPayloads ==
    PayloadsOf("bg_color", BadColours \cup {WhiteText, PyNone})
    \cup PayloadsOf("bgColor", {WhiteText, PyStr(<<"z", "z", "z">>)})
    \cup PayloadsOf("empty_color", BadColours \cup {BareText, PyNone})
    \cup PayloadsOf("emptyColor", {BareText, PyNone})
    \cup PayloadsOf("shape", BadWords \cup {PyStr("square"), PyStr("rough")})
    \cup PayloadsOf("spacing", BadWords \cup {PyStr("tight")})
    \cup PayloadsOf("position", BadWords \cup {PyStr("top")})
    \cup PayloadsOf("avoid_lock_screen_ui",
                    BadAvoids \cup {PyBool(TRUE), PyInt(0), PyStr(<<"y", "e", "s">>)})
    \cup PayloadsOf("avoidLockScreenUi", {PyBool(FALSE), PyInt(2)})
    \cup PayloadsOf("columns", BadColumns \cup {PyInt(7), PyStr(<<"1", "8">>)})
    \cup PayloadsOf("gridColumns", {PyInt(18), PyInt(100)})
    \cup PayloadsOf("bg_image_url", {PyNone, PyStr("__missing__"), PyInt(5)})
    \cup PayloadsOf("mood_colors",
                    { [t |-> "dict", v |-> (1 :> PyStr(<<"#", "0", "0", "0", "0", "0", "0">>))],
                      [t |-> "dict", v |-> (1 :> PyStr(<<"z", "z", "z">>)) @@ (5 :> PyInt(5))],
                      PyStr("notdict") })
    \cup { ("bg_color" :> bg) @@ ("empty_color" :> empty) :
               bg \in {WhiteText, PyStr(<<"z", "z", "z">>)},
               empty \in {BareText, PyStr(<<"z", "z", "z">>), PyNone} }
    \cup { ("columns" :> PyInt(100)) @@ ("gridColumns" :> PyInt(7)),
           ("bg_color" :> PyInt(5)) @@ ("bgColor" :> WhiteText),
           ("shape" :> PyStr("bad")) @@ ("columns" :> PyInt(31)),
           ("mood_colors" :> PyStr("notdict"))
               @@ ("moodColors" :>
                       [t |-> "dict", v |-> (1 :> PyStr(<<"z", "z", "z">>))]) }

\* clone_default_theme(), before any patch.
InitPatch ==
    /\ fin = [t |-> "patch_start"] /\ fout = DEFAULT_THEME
    /\ IdleRender /\ IdleBackend

\* next_theme = apply_theme_patch(current_theme, payload), on the theme of
\* the call before.
ApplyPatch ==
    /\ fin.t \in {"patch_start", "patch"}
    /\ \E payload \in PatchPayloads :
           /\ fin' = [t |-> "patch", current_theme |-> fout, payload |-> payload]
           /\ fout' = apply_theme_patch(fout, payload)
    /\ UNCHANGED <<rq, procDate, shots, backendVars>>

SpecPatch == InitPatch /\ [][ApplyPatch]_vars

(***************************************************************************)
(* SpecThemeStore: one PUT /theme of a user and the GET /theme that        *)
(* follows it, no other request between them.                              *)
(***************************************************************************)
InitThemeStore ==
    /\ fin = [t |-> "theme_store"] /\ fout = NoValue /\ IdleRender
    /\ cache = EmptyCache /\ calls = << >> /\ wreq = << >> /\ ureq = << >>
    /\ rate_limiter = NoValue /\ clock = 0 /\ completed = 0 /\ hist = << >>
    /\ \E theme \in StoredThemes :
           db = [updated_at |-> now_iso(0), theme |-> normalize_theme_for_storage(theme)]

\* _put_theme_sync: the stored theme patched, written with upsert_theme,
\* users.updated_at, the commit, the cache entry dropped, and the response.
PutTheme ==
    /\ fin.t = "theme_store" /\ hist = << >>
    /\ \E payload \in PatchPayloads :
           LET next_theme == apply_theme_patch(theme_from_row(db.theme), payload)
           IN /\ clock' \in Readings
              /\ db' = [ updated_at |-> now_iso(clock'),
                         theme |-> normalize_theme_for_storage(next_theme) ]
              /\ hist' = Append(hist, [ route |-> "PUT /theme", payload |-> payload,
                                        response |-> serialize_theme(next_theme) ])
    /\ cache' = invalidate_wallpaper_cache(cache, ServiceUser)
    /\ UNCHANGED <<fin, fout, rq, procDate, shots, calls, wreq, ureq, completed,
                   rate_limiter>>

\* _get_theme_sync: the stored theme read and serialised.
GetTheme ==
    /\ fin.t = "theme_store" /\ Len(hist) = 1
    /\ hist' = Append(hist, [ route |-> "GET /theme", payload |-> << >>,
                              response |-> serialize_theme(theme_from_row(db.theme)) ])
    /\ UNCHANGED <<fin, fout, rq, procDate, shots, cache, calls, clock, db, wreq, ureq,
                   completed, rate_limiter>>

NextThemeStore == PutTheme \/ GetTheme

SpecThemeStore == InitThemeStore /\ [][NextThemeStore]_vars

(***************************************************************************)
(* SpecLimiter: InMemoryRateLimiter.check called by requests on worker     *)
(* threads.  A call reads time.monotonic() before it takes the lock and    *)
(* runs the rest under the lock: two steps.  Times are whole seconds.      *)
(***************************************************************************)
\* The last value the monotonic clock shows.
MaxMonotonic == 3

\* Calls of check in one behaviour.
MaxChecks == 4

LimiterKeys == {"auth:apple:a", "auth:apple:b"}

CheckIds == {"k1", "k2"}

\* limit, window_seconds and block_seconds of the application.
LimiterSettings ==
    [ t : {"limiter"}, limit : {1, 2}, window_seconds : {2}, block_seconds : {1, 3} ]

\* __init__: no request times and no block.  A stored _blocked_until is at
\* least 1 (now + block), and the code treats 0.0 like an absent value.
EmptyLimiter ==
    [ requests |-> [key \in LimiterKeys |-> << >>],
      blocked_until |-> [key \in LimiterKeys |-> 0] ]

IdleCheck == [pc |-> "idle", key |-> "", now |-> 0]

InitLimiter ==
    /\ fin \in LimiterSettings /\ fout = NoValue /\ IdleRender
    /\ cache = EmptyCache /\ calls = << >> /\ db = NoValue /\ ureq = << >>
    /\ clock = 0 /\ completed = 0 /\ hist = << >>
    /\ wreq = [c \in CheckIds |-> IdleCheck]
    /\ rate_limiter = EmptyLimiter

\* The request times that stay after the loop of lines 49-50.
RECURSIVE popleft_expired(_, _)
popleft_expired(request_times, threshold) ==
    IF request_times # << >> /\ Head(request_times) <= threshold
    THEN popleft_expired(Tail(request_times), threshold)
    ELSE request_times

\* check(), lines 38-62, for a call that read `now`: the limiter after the
\* call and the result.
check_locked(limiter, key, now, limit, window_seconds, block_seconds) ==
    LET max_requests == Max(1, limit)
        window == Max(1, window_seconds)
        block == Max(1, block_seconds)
        blocked_until == limiter.blocked_until[key]
        unblocked == [limiter.blocked_until EXCEPT ![key] = 0]
        request_times == popleft_expired(limiter.requests[key], now - window)
    IN IF blocked_until # 0 /\ blocked_until > now
       THEN [ limiter |-> limiter, allowed |-> FALSE,
              retry_after_seconds |-> PyInt(Max(1, blocked_until - now)) ]
       ELSE IF Len(request_times) >= max_requests
       THEN [ limiter |->
                  [ requests |-> [limiter.requests EXCEPT ![key] = request_times],
                    blocked_until |-> [unblocked EXCEPT ![key] = now + block] ],
              allowed |-> FALSE,
              retry_after_seconds |->
                  PyInt(Max(Max(1, window - (now - Head(request_times))), block)) ]
       ELSE [ limiter |->
                  [ requests |->
                        [limiter.requests EXCEPT ![key] = Append(request_times, now)],
                    blocked_until |-> unblocked ],
              allowed |-> TRUE,
              retry_after_seconds |-> PyNone ]

CallsBegun == Len(hist) + Cardinality({c \in CheckIds : wreq[c].pc # "idle"})

\* check(), line 33: now = time.monotonic().
CheckReadNow(c) ==
    /\ wreq[c].pc = "idle"
    /\ CallsBegun < MaxChecks
    /\ \E key \in LimiterKeys, now \in clock .. Min(clock + 1, MaxMonotonic) :
           /\ clock' = now
           /\ wreq' = [wreq EXCEPT ![c] = [pc |-> "lock", key |-> key, now |-> now]]
    /\ UNCHANGED <<fin, fout, rq, procDate, shots, cache, calls, db, ureq, hist,
                   completed, rate_limiter>>

\* check(), lines 34-62: the body under self._lock.
CheckUnderLock(c) ==
    /\ wreq[c].pc = "lock"
    /\ LET outcome == check_locked(rate_limiter, wreq[c].key, wreq[c].now, fin.limit,
                                   fin.window_seconds, fin.block_seconds)
       IN /\ rate_limiter' = outcome.limiter
          /\ hist' = Append(hist,
                            [ key |-> wreq[c].key, now |-> wreq[c].now,
                              allowed |-> outcome.allowed,
                              retry_after_seconds |-> outcome.retry_after_seconds,
                              blocking |-> outcome.limiter.blocked_until[wreq[c].key]
                                              # rate_limiter.blocked_until[wreq[c].key]
                                           /\ ~outcome.allowed ])
    /\ wreq' = [wreq EXCEPT ![c] = IdleCheck]
    /\ UNCHANGED <<fin, fout, rq, procDate, shots, cache, calls, clock, db, ureq, completed>>

NextLimiter == \E c \in CheckIds : CheckReadNow(c) \/ CheckUnderLock(c)

SpecLimiter == InitLimiter /\ [][NextLimiter]_vars

\* The same calls when each reads the clock and runs the body without
\* another call in between.
CheckAlone(c) ==
    /\ \A other \in CheckIds : wreq[other].pc = "idle"
    /\ CheckReadNow(c)

NextLimiterSerial == \E c \in CheckIds : CheckAlone(c) \/ CheckUnderLock(c)

SpecLimiterSerial == InitLimiter /\ [][NextLimiterSerial]_vars

(***************************************************************************)
(* SpecSession: requests that authenticate with a session token.  Each     *)
(* request reads its session row, reads the clock, rotates the session     *)
(* when it is due, runs its handler and commits: three steps.  Times are   *)
(* whole units of the clock; a stored time text stands for its reading.    *)
(***************************************************************************)
\* The last value the clock shows.
MaxSessionClock == 4

AuthIds == {"a1", "a2", "a3"}

EarlierAuth(a) == IF a = "a2" THEN {"a1"} ELSE IF a = "a3" THEN {"a1", "a2"} ELSE {}

\* create_opaque_token(24) of the request: a token no other request draws.
NewToken(a) == IF a = "a1" THEN "n1" ELSE IF a = "a2" THEN "n2" ELSE "n3"

DevToken == "dev"

\* The tokens requests present: the sessions of the start, an unknown token
\* and the tokens that the first two requests may have created.
PresentedTokens == {"s0", "sx", DevToken, "bogus", NewToken("a1"), NewToken("a2")}

\* A route that leaves rotation to require_auth and the two that disable it.
SessionRoutes == {"GET /theme", "DELETE /auth/session", "POST /auth/session/refresh"}

\* app.state of create_app: rotate interval and lifetime of a session.
SessionSettings ==
    [ t : {"session"}, session_rotate_interval_seconds : {2},
      session_ttl_seconds : {3}, dev_bearer_token : {DevToken} ]

\* The ISO text that isoformat() writes for a time.
IsoText(reading) == [t |-> "iso", at |-> reading]

\* _parse_iso_datetime: the time of an ISO text, None for any other value.
parse_iso_datetime(value) == IF value.t = "iso" THEN PyInt(value.at) ELSE PyNone

\* _iso_after_seconds(base, ttl_seconds)
iso_after_seconds(base, ttl_seconds) == base + Max(1, ttl_seconds)

\* create_session: INSERT INTO sessions.
create_session(sessions, token, user_id, created_at, session_ttl_seconds) ==
    [ existing \in (DOMAIN sessions) \cup {token} |->
        IF existing = token
        THEN [ user_id |-> user_id, created_at |-> IsoText(now_iso(created_at)),
               expires_at |->
                   IsoText(iso_after_seconds(created_at, session_ttl_seconds)) ]
        ELSE sessions[existing] ]

\* DELETE FROM sessions WHERE token = ?
delete_session_row(sessions, token) ==
    IF (DOMAIN sessions) \ {token} = {} THEN << >>
    ELSE [existing \in (DOMAIN sessions) \ {token} |-> sessions[existing]]

\* A rotate_session that leaves the old session in the table.
rotate_session_keep_old(sessions, old_token, new_token, user_id, created_at, ttl_seconds) ==
    create_session(sessions, new_token, user_id, created_at, ttl_seconds)

rotate_session(sessions, old_token, new_token, user_id, created_at, ttl_seconds) ==
    delete_session_row(
        create_session(sessions, new_token, user_id, created_at, ttl_seconds),
        old_token)

\* A require_auth that takes no session for expired.
session_expired_never(session_expires_at, now_utc) == FALSE

\* require_auth, lines 68-69.
session_expired(session_expires_at, now_utc) ==
    LET expires_at == parse_iso_datetime(session_expires_at)
    IN expires_at = PyNone \/ expires_at.v <= now_utc

\* A should_rotate that does not look at the dev bearer token.
should_rotate_dev_too(settings, disable_session_rotation, token, session_created_at, now_utc) ==
    /\ ~disable_session_rotation
    /\ LET created == IF parse_iso_datetime(session_created_at) = PyNone THEN now_utc
                      ELSE parse_iso_datetime(session_created_at).v
       IN Max(0, now_utc - created) >= settings.session_rotate_interval_seconds

\* require_auth, lines 81-95: whether the session is rotated.
should_rotate(settings, disable_session_rotation, token, session_created_at, now_utc) ==
    /\ ~disable_session_rotation
    /\ settings.session_rotate_interval_seconds > 0
    /\ settings.session_ttl_seconds > 0
    /\ token # settings.dev_bearer_token
    /\ LET created == IF parse_iso_datetime(session_created_at) = PyNone THEN now_utc
                      ELSE parse_iso_datetime(session_created_at).v
       IN Max(0, now_utc - created) >= settings.session_rotate_interval_seconds

\* attach_rotated_session_headers: the headers added to the response.
attach_rotated_session_headers(refreshed) ==
    IF refreshed = NoValue THEN [token |-> PyNone, expires_at |-> PyNone]
    ELSE [token |-> PyStr(refreshed.token), expires_at |-> PyInt(refreshed.expires_at)]

IdleAuth ==
    [ pc |-> "idle", route |-> "", token |-> "", since |-> 0, row |-> NoValue,
      now_utc |-> 0, refreshed |-> NoValue ]

\* One user with a session created at time 0, a session of an older
\* installation whose expires_at is not an ISO text, and the dev session.
InitSession ==
    /\ fin \in SessionSettings /\ fout = NoValue /\ IdleRender
    /\ cache = EmptyCache /\ calls = << >> /\ ureq = << >> /\ rate_limiter = NoValue
    /\ clock = 0 /\ completed = 0 /\ hist = << >>
    /\ db = [ sessions |->
                  [ create_session(
                        create_session(
                            create_session(<< >>, DevToken, ServiceUser, 0,
                                           fin.session_ttl_seconds),
                            "s0", ServiceUser, 0, fin.session_ttl_seconds),
                        "sx", ServiceUser, 0, fin.session_ttl_seconds)
                    EXCEPT !["sx"].expires_at = PyStr("soon") ],
              updated_at |-> now_iso(0) ]
    /\ wreq = [a \in AuthIds |-> IdleAuth]

\* What a finished request leaves in the history: what it presented and
\* read, and its response.
Answered(request, status, detail, now_utc, refreshed, access_token) ==
    [ route |-> request.route, token |-> request.token, since |-> request.since,
      row |-> request.row, now_utc |-> now_utc, status |-> status, detail |-> detail,
      session_token |-> attach_rotated_session_headers(refreshed).token,
      session_expires_at |-> attach_rotated_session_headers(refreshed).expires_at,
      access_token |-> access_token ]

\* require_auth, lines 44-65: the session row of the bearer token.
AuthSelect(a) ==
    /\ wreq[a].pc = "idle"
    /\ \A earlier \in EarlierAuth(a) : wreq[earlier].pc # "idle"
    /\ \E route \in SessionRoutes, token \in PresentedTokens :
           LET row == IF token \in DOMAIN db.sessions THEN db.sessions[token] ELSE NoValue
               request == [ IdleAuth EXCEPT !.route = route, !.token = token,
                                            !.since = Len(hist), !.row = row ]
           IN IF row = NoValue
              THEN /\ hist' = Append(hist, Answered(request, 401, "Invalid session token.",
                                                    0, NoValue, PyNone))
                   /\ wreq' = [wreq EXCEPT ![a] = [IdleAuth EXCEPT !.pc = "done"]]
              ELSE /\ hist' = hist
                   /\ wreq' = [wreq EXCEPT ![a] = [request EXCEPT !.pc = "check"]]
    /\ UNCHANGED <<fin, fout, rq, procDate, shots, cache, calls, clock, db, ureq,
                   completed, rate_limiter>>

\* require_auth, lines 67-106: the expiry test and the rotation.  The 401
\* leaves get_conn by its except branch: the DELETE of line 70 is rolled
\* back and the handler's statements are not reached.
AuthCheck(a) ==
    /\ wreq[a].pc = "check"
    /\ \E now_utc \in clock .. MaxSessionClock :
         \E created_at \in now_utc .. Min(now_utc + 1, MaxSessionClock) :
           LET request == wreq[a]
               disable_session_rotation == request.route # "GET /theme"
           IN IF session_expired(request.row.expires_at, now_utc)
              THEN /\ clock' = now_utc
                   /\ hist' = Append(hist, Answered(request, 401,
                                                    "Session expired. Sign in again.",
                                                    now_utc, NoValue, PyNone))
                   /\ wreq' = [wreq EXCEPT ![a] = [IdleAuth EXCEPT !.pc = "done"]]
              ELSE IF should_rotate(fin, disable_session_rotation, request.token,
                                    request.row.created_at, now_utc)
              THEN /\ clock' = created_at
                   /\ hist' = hist
                   /\ wreq' = [wreq EXCEPT ![a] =
                                   [ request EXCEPT
                                       !.pc = "handler", !.now_utc = now_utc,
                                       !.refreshed =
                                           [ token |-> NewToken(a),
                                             created_at |-> created_at,
                                             expires_at |->
                                                 iso_after_seconds(created_at,
                                                                   fin.session_ttl_seconds) ] ]]
              ELSE /\ clock' = now_utc
                   /\ hist' = hist
                   /\ wreq' = [wreq EXCEPT ![a] =
                                   [request EXCEPT !.pc = "handler", !.now_utc = now_utc]]
    /\ UNCHANGED <<fin, fout, rq, procDate, shots, cache, calls, db, ureq, completed,
                   rate_limiter>>

\* The token for which the handler got its user, after a rotation by
\* require_auth its new token.
AuthenticatedToken(request) ==
    IF request.refreshed = NoValue THEN request.token ELSE request.refreshed.token

\* The sessions after the statements of require_auth.
SessionsAfterAuth(request) ==
    IF request.refreshed = NoValue THEN db.sessions
    ELSE rotate_session(db.sessions, request.token, request.refreshed.token,
                        request.row.user_id, request.refreshed.created_at,
                        fin.session_ttl_seconds)

\* _get_theme_sync: no statement that writes; the commit of get_conn and the
\* response with the headers of attach_rotated_session_headers.
ThemeCommit(a) ==
    /\ wreq[a].pc = "handler" /\ wreq[a].route = "GET /theme"
    /\ db' = [db EXCEPT !.sessions = SessionsAfterAuth(wreq[a])]
    /\ hist' = Append(hist, Answered(wreq[a], 200, "", wreq[a].now_utc,
                                     wreq[a].refreshed, PyNone))
    /\ wreq' = [wreq EXCEPT ![a] = [IdleAuth EXCEPT !.pc = "done"]]
    /\ UNCHANGED <<fin, fout, rq, procDate, shots, cache, calls, clock, ureq, completed,
                   rate_limiter>>

\* delete_session: the session goes and users.updated_at moves, except for
\* the dev bearer token.
DeleteSessionCommit(a) ==
    /\ wreq[a].pc = "handler" /\ wreq[a].route = "DELETE /auth/session"
    /\ \E timestamp \in clock .. Min(clock + 1, MaxSessionClock) :
           LET request == wreq[a]
               token == AuthenticatedToken(request)
           IN IF token # fin.dev_bearer_token
              THEN /\ clock' = timestamp
                   /\ db' = [ sessions |->
                                  delete_session_row(SessionsAfterAuth(request), token),
                              updated_at |-> now_iso(timestamp) ]
              ELSE /\ clock' = clock
                   /\ db' = [db EXCEPT !.sessions = SessionsAfterAuth(request)]
    /\ hist' = Append(hist, Answered(wreq[a], 204, "", wreq[a].now_utc,
                                     wreq[a].refreshed, PyNone))
    /\ wreq' = [wreq EXCEPT ![a] = [IdleAuth EXCEPT !.pc = "done"]]
    /\ UNCHANGED <<fin, fout, rq, procDate, shots, cache, calls, ureq, completed,
                   rate_limiter>>

\* refresh_session: the dev bearer token is returned as it is; any other
\* session is rotated and users.updated_at moves.
RefreshSessionCommit(a) ==
    /\ wreq[a].pc = "handler" /\ wreq[a].route = "POST /auth/session/refresh"
    /\ \E created_at \in clock .. Min(clock + 1, MaxSessionClock) :
           LET request == wreq[a]
               token == AuthenticatedToken(request)
               rotated == [ token |-> NewToken(a), created_at |-> created_at,
                            expires_at |->
                                iso_after_seconds(created_at, fin.session_ttl_seconds) ]
           IN IF token = fin.dev_bearer_token
              THEN /\ clock' = clock
                   /\ db' = [db EXCEPT !.sessions = SessionsAfterAuth(request)]
                   /\ hist' = Append(hist, Answered(request, 200, "", request.now_utc,
                                                    request.refreshed, PyStr(token)))
              ELSE /\ clock' = created_at
                   /\ db' = [ sessions |->
                                  rotate_session(SessionsAfterAuth(request), token,
                                                 rotated.token, request.row.user_id,
                                                 created_at, fin.session_ttl_seconds),
                              updated_at |-> now_iso(created_at) ]
                   /\ hist' = Append(hist, Answered(request, 200, "", request.now_utc,
                                                    rotated, PyStr(rotated.token)))
    /\ wreq' = [wreq EXCEPT ![a] = [IdleAuth EXCEPT !.pc = "done"]]
    /\ UNCHANGED <<fin, fout, rq, procDate, shots, cache, calls, ureq, completed,
                   rate_limiter>>

AuthCommit(a) == ThemeCommit(a) \/ DeleteSessionCommit(a) \/ RefreshSessionCommit(a)

NextSession == \E a \in AuthIds : AuthSelect(a) \/ AuthCheck(a) \/ AuthCommit(a)

SpecSession == InitSession /\ [][NextSession]_vars

(***************************************************************************)
(* The wallpaper tokens: POST /auth/apple, POST /token/rotate and          *)
(* GET /w/{token} on the users table (SpecToken).  db is the users table   *)
(* with its UNIQUE columns apple_sub and wallpaper_token, the sessions     *)
(* that sign-ins created, all inside their lifetime and rotate interval.   *)
(***************************************************************************)
MaxTokenClock == 1

TokenReqIds == {"r1", "r2", "r3", "r4"}

EarlierTokenReq(r) ==
    IF r = "r2" THEN {"r1"} ELSE IF r = "r3" THEN {"r1", "r2"}
    ELSE IF r = "r4" THEN {"r1", "r2", "r3"} ELSE {}

\* What create_opaque_token(32) can return: any token, in use or not.
TokenPool == {"w1", "w2", "w3"}

\* The subjects of the identity tokens.
AppleSubs == {"apple_a", "apple_b"}

\* uuid.uuid4() and create_session's token of a request: values of its own.
uuid4(r) == IF r = "r1" THEN "u1" ELSE IF r = "r2" THEN "u2" ELSE IF r = "r3" THEN "u3" ELSE "u4"

SessionOf(r) == IF r = "r1" THEN "t1" ELSE IF r = "r2" THEN "t2" ELSE IF r = "r3" THEN "t3" ELSE "t4"

BearerTokens == {SessionOf(r) : r \in TokenReqIds} \cup {"bogus"}

\* The users whose row holds the wallpaper token.
users_with_token(users, token) ==
    {user_id \in DOMAIN users : users[user_id].wallpaper_token = token}

\* A users table without the UNIQUE constraint on wallpaper_token.
token_is_free_unchecked(users, token, user_id) == TRUE

\* UNIQUE on users.wallpaper_token: no other row holds the token.
token_is_free(users, token, user_id) == users_with_token(users, token) \subseteq {user_id}

\* for _ in range(5): the loop ends in the round whose statement, with the
\* candidate it drew, raises no IntegrityError, every round before it having
\* drawn a candidate that raised one; round 0 stands for five rounds that
\* all raised it.
rounds_end(users, user_id, apple_sub_free, round, candidate) ==
    LET refused == {token \in TokenPool :
                        ~apple_sub_free \/ ~token_is_free(users, token, user_id)}
    IN IF round = 0 THEN refused # {}
       ELSE /\ candidate \notin refused
            /\ round > 1 => refused # {}

\* INSERT INTO users / UPDATE users SET wallpaper_token, updated_at.
put_user(users, user_id, apple_sub, wallpaper_token, updated_at) ==
    [ existing \in (DOMAIN users) \cup {user_id} |->
        IF existing = user_id
        THEN [ apple_sub |-> apple_sub, wallpaper_token |-> wallpaper_token,
               updated_at |-> updated_at ]
        ELSE users[existing] ]

\* _get_user_for_wallpaper_token: the row of the token, None when no row.
get_user_for_wallpaper_token(users, token) ==
    IF users_with_token(users, token) = {} THEN PyNone
    ELSE PyStr(CHOOSE user_id \in users_with_token(users, token) : TRUE)

IdleTokenReq == [pc |-> "idle", op |-> "", apple_sub |-> "", user_id |-> PyNone]

InitToken ==
    /\ fin = [t |-> "token"] /\ fout = NoValue /\ IdleRender
    /\ cache = EmptyCache /\ calls = << >> /\ ureq = << >> /\ rate_limiter = NoValue
    /\ clock = 0 /\ completed = 0 /\ hist = << >>
    /\ db = [users |-> << >>, sessions |-> << >>]
    /\ wreq = [r \in TokenReqIds |-> IdleTokenReq]

\* What a finished request leaves in the history: its response, and for a
\* rotation the token it replaced and whether a round was refused.
TokenAnswer(op, status, user_id, token, old_token, refused) ==
    [op |-> op, status |-> status, user_id |-> user_id, token |-> token,
     old_token |-> old_token, refused |-> refused]

TokenRequestDone(r) == wreq' = [wreq EXCEPT ![r] = [IdleTokenReq EXCEPT !.pc = "done"]]

\* auth_apple, line 63: SELECT id FROM users WHERE apple_sub = ?
SignInSelect(r) ==
    /\ wreq[r].pc = "idle"
    /\ \A earlier \in EarlierTokenReq(r) : wreq[earlier].pc # "idle"
    /\ \E apple_sub \in AppleSubs :
           LET found == {user_id \in DOMAIN db.users : db.users[user_id].apple_sub = apple_sub}
           IN wreq' = [wreq EXCEPT ![r] =
                  [ pc |-> "create", op |-> "sign_in", apple_sub |-> apple_sub,
                    user_id |-> IF found = {} THEN PyNone
                                ELSE PyStr(CHOOSE user_id \in found : TRUE) ]]
    /\ UNCHANGED <<fin, fout, rq, procDate, shots, cache, calls, clock, db, ureq, hist,
                   completed, rate_limiter>>

\* auth_apple, lines 64-75: create_user for a new subject, create_session,
\* users.updated_at, and the commit of get_conn; the RuntimeError of
\* create_user rolls everything back.
SignInCommit(r) ==
    /\ wreq[r].pc = "create"
    /\ \E round \in 0..5, candidate \in TokenPool,
          timestamp \in clock .. Min(clock + 1, MaxTokenClock) :
           LET request == wreq[r]
               apple_sub_free == \A user_id \in DOMAIN db.users :
                                     db.users[user_id].apple_sub # request.apple_sub
               user_id == IF request.user_id = PyNone THEN uuid4(r) ELSE request.user_id.v
               wallpaper_token == IF request.user_id = PyNone THEN candidate
                                  ELSE db.users[user_id].wallpaper_token
           IN /\ IF request.user_id = PyNone
                 THEN rounds_end(db.users, user_id, apple_sub_free, round, candidate)
                 ELSE round = 1 /\ candidate = wallpaper_token
              /\ IF request.user_id = PyNone /\ round = 0
                 THEN /\ db' = db /\ clock' = clock
                      /\ hist' = Append(hist, TokenAnswer("sign_in", 500, PyNone, "", "", TRUE))
                 ELSE /\ clock' = timestamp
                      /\ db' = [ users |-> put_user(db.users, user_id, request.apple_sub,
                                                    wallpaper_token, now_iso(timestamp)),
                                 sessions |-> [ token \in (DOMAIN db.sessions) \cup {SessionOf(r)} |->
                                                  IF token = SessionOf(r) THEN user_id
                                                  ELSE db.sessions[token] ] ]
                      /\ hist' = Append(hist, TokenAnswer("sign_in", 200, PyStr(user_id),
                                                          SessionOf(r), "", round > 1))
    /\ TokenRequestDone(r)
    /\ UNCHANGED <<fin, fout, rq, procDate, shots, cache, calls, ureq, completed,
                   rate_limiter>>

\* rotate_token, line 38: require_auth reads the user of the session.
RotateSelect(r) ==
    /\ wreq[r].pc = "idle"
    /\ \A earlier \in EarlierTokenReq(r) : wreq[earlier].pc # "idle"
    /\ \E bearer \in BearerTokens :
           IF bearer \in DOMAIN db.sessions
           THEN /\ wreq' = [wreq EXCEPT ![r] =
                       [ pc |-> "update", op |-> "rotate", apple_sub |-> "",
                         user_id |-> PyStr(db.sessions[bearer]) ]]
                /\ hist' = hist
           ELSE /\ TokenRequestDone(r)
                /\ hist' = Append(hist, TokenAnswer("rotate", 401, PyNone, "", "", FALSE))
    /\ UNCHANGED <<fin, fout, rq, procDate, shots, cache, calls, clock, db, ureq,
                   completed, rate_limiter>>

\* rotate_token, lines 39-57: the rounds of UPDATE users SET wallpaper_token
\* and the commit of get_conn.
RotateCommit(r) ==
    /\ wreq[r].pc = "update"
    /\ \E round \in 0..5, candidate \in TokenPool,
          timestamp \in clock .. Min(clock + 1, MaxTokenClock) :
           LET user_id == wreq[r].user_id.v
           IN /\ rounds_end(db.users, user_id, TRUE, round, candidate)
              /\ IF round = 0
                 THEN /\ db' = db /\ clock' = timestamp
                      /\ hist' = Append(hist, TokenAnswer("rotate", 500, PyStr(user_id),
                                                          "", "", TRUE))
                 ELSE /\ clock' = timestamp
                      /\ db' = [db EXCEPT !.users =
                                    put_user(db.users, user_id, db.users[user_id].apple_sub,
                                             candidate, now_iso(timestamp))]
                      /\ hist' = Append(hist, TokenAnswer("rotate", 200, PyStr(user_id),
                                                          candidate,
                                                          db.users[user_id].wallpaper_token,
                                                          round > 1))
    /\ TokenRequestDone(r)
    /\ UNCHANGED <<fin, fout, rq, procDate, shots, cache, calls, ureq, completed,
                   rate_limiter>>

\* wallpaper (GET /w/{token}): 404 for a token of no user, else the
\* wallpaper of the token's user.
GetWallpaper(r) ==
    /\ wreq[r].pc = "idle"
    /\ \A earlier \in EarlierTokenReq(r) : wreq[earlier].pc # "idle"
    /\ \E token \in TokenPool :
           LET user == get_user_for_wallpaper_token(db.users, token)
           IN hist' = Append(hist, TokenAnswer("wallpaper",
                                               IF user = PyNone THEN 404 ELSE 200,
                                               user, token, "", FALSE))
    /\ TokenRequestDone(r)
    /\ UNCHANGED <<fin, fout, rq, procDate, shots, cache, calls, clock, db, ureq,
                   completed, rate_limiter>>

NextToken ==
    \E r \in TokenReqIds :
        \/ SignInSelect(r) \/ SignInCommit(r)
        \/ RotateSelect(r) \/ RotateCommit(r)
        \/ GetWallpaper(r)

SpecToken == InitToken /\ [][NextToken]_vars

(***************************************************************************)
(* Properties of the layout (SpecLayout, SpecDot).                         *)
(***************************************************************************)
LayoutDone == fin.t = "layout" /\ fout # NoValue

DotDone == fin.t = "dot" /\ fout # NoValue

\* C3: with position 'clock' and avoid_lock_screen_ui false the grid's top
\* edge is at or below TOP_INSET_CLOCK + 36 and its bottom edge
\* (top + grid_height) is at or above WALLPAPER_HEIGHT - BOTTOM_INSET.
C3_ClockGridInsideInsets ==
    (LayoutDone /\ fin.position = "clock" /\ ~fin.avoid_lock_screen_ui)
        => /\ fout.top >= TOP_INSET_CLOCK + 36
           /\ fout.top + fout.grid_height <= WALLPAPER_HEIGHT - BOTTOM_INSET

\* C4: with avoid_lock_screen_ui true, whatever the position, the grid's
\* top edge is at or below the protected top (the bottom of the widget box,
\* TOP_INSET_CLOCK + 620, plus 28) and its bottom edge is at or above
\* WALLPAPER_HEIGHT - BOTTOM_INSET.
C4_AvoidGridBelowWidgets ==
    (LayoutDone /\ fin.avoid_lock_screen_ui)
        => /\ fout.top >= TOP_INSET_CLOCK + 620 + 28
           /\ fout.top + fout.grid_height <= WALLPAPER_HEIGHT - BOTTOM_INSET

\* A centred grid laid out under the widget row, with room to spare below.
C4_Witness ==
    /\ LayoutDone /\ fin.avoid_lock_screen_ui /\ fin.position = "center"
    /\ fout.top > TOP_INSET_CLOCK + 620 + 28
    /\ fout.top + fout.grid_height < WALLPAPER_HEIGHT - BOTTOM_INSET

C1_ExplicitDateRenderRepeats ==
    (rq.t = "render" /\ rq.today # PyNone)
        => \A i, j \in DOMAIN shots : shots[i].scene = shots[j].scene

\* The same explicit-date request rendered on two different process dates.
C1_Witness ==
    /\ rq.t = "render" /\ rq.today # PyNone
    /\ Len(shots) >= 2
    /\ shots[1].process_date # shots[2].process_date

\* The date a recorded render was made for.
ShotToday(shot) == IF rq.today = PyNone THEN shot.process_date ELSE rq.today.v

\* The colour of the class of day i: its recorded level's colour, the
\* future colour strictly after today, the empty colour otherwise.
ClassColor(palette, today, i) ==
    LET key == DateKeyOfIndex(today[1], i)
    IN IF key \in DOMAIN rq.moods THEN palette.mood_colors[rq.moods[key].level]
       ELSE IF i > IndexOfDate(today) THEN palette.future_rgb
       ELSE palette.empty_rgb

\* The class colour as painted: toned down when the dot's centre is in the
\* safe box of its class.
ToneDownColor(palette, today, i, dot) ==
    LET base == ClassColor(palette, today, i)
        cx == dot.x + (dot.size \div 2)
        cy == dot.y + (dot.size \div 2)
    IN IF DateKeyOfIndex(today[1], i) \in DOMAIN rq.moods THEN
           (IF point_in_box(cx, cy, clock_safe_box)
            THEN blend_rgb(blend_rgb(base, desaturate_rgb(base), 82),
                           palette.bg_rgb, 52)
            ELSE base)
       ELSE IF point_in_box(cx, cy, widget_soft_safe_box) THEN
           blend_rgb(base, palette.bg_rgb, IF i > IndexOfDate(today) THEN 50 ELSE 34)
       ELSE base

\* C2 (as amended): every day of the rendered year is painted the colour
\* of its class (recorded level, future strictly after T, empty otherwise)
\* when its dot's centre is outside the safe box of that class, and that
\* colour after the readability treatment when it is inside.
C2_DayPaintedClassColorToned ==
    rq.t = "render" =>
        LET palette == RenderColors(rq.theme)
        IN \A n \in DOMAIN shots :
            LET today == ShotToday(shots[n])
                dots == shots[n].scene.dots
            IN /\ DOMAIN dots = 0..(days_in_year(today[1]) - 1)
               /\ \A i \in DOMAIN dots :
                      dots[i].color = ToneDownColor(palette, today, i, dots[i])

\* The spec's scenario: default theme with 14 columns and square dots,
\* level 5 recorded on 2026-02-14, rendered for 2026-02-20.
C2_Scenario ==
    /\ rq.t = "render"
    /\ rq.theme = [DEFAULT_THEME EXCEPT !.columns = 14, !.shape = "square"]
    /\ rq.moods = (<<2026, 2, 14>> :> [level |-> 5])
    /\ rq.today = PyDate(<<2026, 2, 20>>)

\* The scenario rendered: 14 February in the level 5 colour, 1 January in
\* the empty colour, 15 February and 21 February toned down under the
\* widgets, 31 December in the future colour.
C2_Witness ==
    /\ C2_Scenario /\ Len(shots) >= 1
    /\ shots[1].scene.dots[44].color = <<59, 130, 246>>
    /\ shots[1].scene.dots[0].color = <<57, 60, 65>>
    /\ shots[1].scene.dots[45].color = <<42, 45, 51>>
    /\ shots[1].scene.dots[51].color = <<24, 28, 34>>
    /\ shots[1].scene.dots[364].color = <<35, 38, 44>>

\* C2 as written: every day is painted exactly the colour of its class.
C2_DayPaintedClassColor ==
    rq.t = "render" =>
        LET palette == RenderColors(rq.theme)
        IN \A n \in DOMAIN shots :
            \A i \in DOMAIN shots[n].scene.dots :
                shots[n].scene.dots[i].color
                    = ClassColor(palette, ShotToday(shots[n]), i)


\* The render of the same request with the other of the two shapes.
OtherShape(shape) == IF shape = "square" THEN "rounded" ELSE "square"

ShapeTwin(shot) ==
    RenderScene([rq.theme EXCEPT !.shape = OtherShape(rq.theme.shape)],
                rq.moods, ShotToday(shot))

\* Offsets probed along each axis of a dot of size w whose rounded corner
\* has radius r: both sides of every boundary of the corner squares, the
\* dot's edges and its middle.
ProbeOffsets(w, r) ==
    {-1, 0, 1, r - 2, r - 1, r, w \div 2, w - r - 1, w - r, w - r + 1, w - 2, w - 1, w}

\* Days whose dots are probed: the first and the last day, the day
\* rendered for, and the recorded days.
ProbeDays(scene, today) ==
    ({0, IndexOfDate(today)} \cup {IndexOfDate(k) : k \in DOMAIN rq.moods}
        \cup {days_in_year(today[1]) - 1}) \cap DOMAIN scene.dots

\* (px, py) lies in one of the four r x r corner squares of the dot.
InCornerSquare(dot, r, px, py) ==
    LET lx == px - dot.x
        ly == py - dot.y
    IN /\ (lx >= 0 /\ lx < r) \/ (lx >= dot.size - r /\ lx < dot.size)
       /\ (ly >= 0 /\ ly < r) \/ (ly >= dot.size - r /\ ly < dot.size)

\* C6: a render with shape 'square' and one with shape 'rounded' of the
\* same request paint the same dots at the same places in the same
\* colours, and a pixel on which they differ lies in one of the
\* radius x radius corner squares of a dot.
C6_ShapesDifferOnlyInCorners ==
    rq.t = "render" =>
        \A n \in DOMAIN shots :
            LET one == shots[n].scene
                two == ShapeTwin(shots[n])
                r == Max(one.lay.radius, two.lay.radius)
            IN /\ two.gradient = one.gradient
               /\ [two.lay EXCEPT !.radius = 0] = [one.lay EXCEPT !.radius = 0]
               /\ \A i \in DOMAIN one.dots :
                      [two.dots[i] EXCEPT !.radius = 0] = [one.dots[i] EXCEPT !.radius = 0]
               /\ \A i \in ProbeDays(one, ShotToday(shots[n])) :
                      LET dot == one.dots[i] IN
                      \A ox, oy \in ProbeOffsets(dot.size, r) :
                          PixelAt(one, dot.x + ox, dot.y + oy)
                                  # PixelAt(two, dot.x + ox, dot.y + oy)
                              => InCornerSquare(dot, r, dot.x + ox, dot.y + oy)

\* A rounded render whose first dot leaves its top-left pixel to the
\* background while the square render paints it, and both paint the
\* dot's centre.
C6_Witness ==
    /\ rq.t = "render" /\ rq.theme.shape = "rounded" /\ Len(shots) >= 1
    /\ LET one == shots[1].scene
           two == ShapeTwin(shots[1])
           dot == one.dots[0]
       IN /\ PixelAt(one, dot.x, dot.y) = GradientRow(one, dot.y)
          /\ PixelAt(two, dot.x, dot.y) = dot.color
          /\ dot.color # GradientRow(one, dot.y)
          /\ PixelAt(one, dot.x + (dot.size \div 2), dot.y + (dot.size \div 2)) = dot.color


(***************************************************************************)
(* Properties of the readability treatment (SpecTreat).                    *)
(***************************************************************************)
TreatDone == fin.t = "treat" /\ fout # NoValue

\* Saturation: the spread between the largest and the smallest channel.
Spread(c) == Max(c[1], Max(c[2], c[3])) - Min(c[1], Min(c[2], c[3]))

\* The squared Euclidean distance of two colours.
Dist2(a, b) ==
    (a[1] - b[1]) * (a[1] - b[1]) + (a[2] - b[2]) * (a[2] - b[2])
        + (a[3] - b[3]) * (a[3] - b[3])

\* C7 (as amended): outside the clock-safe box a mood dot's colour is
\* returned unchanged; inside, the returned colour is strictly less
\* saturated whenever the mood colour's channel spread is larger than the
\* background's, and strictly closer to the background whenever the mood
\* colour is more than 3 away from the background and at least as far from
\* it as from its own luminance grey.
C7_TreatedMutedWhenDistinct ==
    TreatDone =>
        /\ fout.outside = fin.color
        /\ Spread(fin.color) > Spread(fin.bg_rgb)
               => Spread(fout.inside) < Spread(fout.outside)
        /\ (/\ Dist2(fin.color, fin.bg_rgb) > 9
            /\ Dist2(fin.color, fin.bg_rgb) >= Dist2(fin.color, desaturate_rgb(fin.color)))
               => Dist2(fout.inside, fin.bg_rgb) < Dist2(fout.outside, fin.bg_rgb)

\* The default level 5 colour on the default background, muted inside the
\* box: less saturated and closer to the background.
C7_Witness ==
    /\ TreatDone
    /\ fin.color = <<59, 130, 246>> /\ fin.bg_rgb = <<13, 17, 23>>
    /\ fout.inside = <<60, 68, 82>> /\ fout.outside = <<59, 130, 246>>
    /\ Spread(fout.inside) < Spread(fout.outside)
    /\ Dist2(fout.inside, fin.bg_rgb) < Dist2(fout.outside, fin.bg_rgb)

\* C7 as written: for every mood colour and every background colour the
\* colour returned inside the box is strictly less saturated and strictly
\* closer to the background than the one returned outside.
C7_TreatedAlwaysMuted ==
    TreatDone =>
        /\ fout.outside = fin.color
        /\ Spread(fout.inside) < Spread(fout.outside)
        /\ Dist2(fout.inside, fin.bg_rgb) < Dist2(fout.outside, fin.bg_rgb)


(***************************************************************************)
(* Properties of the PNG encoder (SpecPng).                                *)
(***************************************************************************)
PngDone == fin.t \in {"png", "png_head"} /\ fout # NoValue

\* The big-endian number in the four bytes at pos.
BigEndian32(out, pos) ==
    ((out[pos] * 256 + out[pos + 1]) * 256 + out[pos + 2]) * 256 + out[pos + 3]

\* The chunk that starts at pos, read as length, type, payload, CRC.
ChunkAt(out, pos) ==
    LET n == BigEndian32(out, pos)
    IN [ length |-> n,
         type |-> SubSeq(out, pos + 4, pos + 7),
         payload |-> SubSeq(out, pos + 8, pos + 7 + n),
         crc |-> SubSeq(out, pos + 8 + n, pos + 11 + n),
         next |-> pos + 12 + n ]

\* The chunk's CRC field is the CRC-32 of its type followed by its payload.
ChunkCrcOk(chunk) ==
    chunk.crc = struct_pack_I32(zlib_crc32(chunk.type \o chunk.payload, <<0, 0>>))

RECURSIVE SumBytes(_, _)
SumBytes(data, i) == IF i > Len(data) THEN 0 ELSE data[i] + SumBytes(data, i + 1)

RECURSIVE WeightedSum(_, _)
WeightedSum(data, i) ==
    IF i > Len(data) THEN 0
    ELSE (Len(data) - i + 1) * data[i] + WeightedSum(data, i + 1)

\* Adler-32 in closed form, as four big-endian bytes.
Adler32Bytes(data) ==
    LET a == (1 + SumBytes(data, 1)) % 65521
        b == (Len(data) + WeightedSum(data, 1)) % 65521
    IN <<b \div 256, b % 256, a \div 256, a % 256>>

\* What an inflater makes of a zlib stream of one stored block; <<-1>> when
\* the stream is not well formed.
Inflate(stream) ==
    IF Len(stream) < 11 THEN <<-1>>
    ELSE LET n == stream[4] + 256 * stream[5]
             data == SubSeq(stream, 8, 7 + n)
         IN IF /\ (stream[1] * 256 + stream[2]) % 31 = 0
               /\ stream[1] % 16 = 8
               /\ stream[3] = 1
               /\ stream[6] + 256 * stream[7] = 65535 - n
               /\ Len(stream) = 11 + n
               /\ SubSeq(stream, 8 + n, 11 + n) = Adler32Bytes(data)
            THEN data ELSE <<-1>>

\* height scanlines, each a filter byte 0 followed by the row's width * 4
\* bytes.
ExpectedScanlines(width, height, rgba) ==
    [ j \in 1..(height * (width * 4 + 1)) |->
        LET y == (j - 1) \div (width * 4 + 1)
            k == (j - 1) % (width * 4 + 1)
        IN IF k = 0 THEN 0 ELSE rgba[y * width * 4 + k] ]

\* C8: the output is the 8 byte signature and then the chunks IHDR, IDAT,
\* IEND and nothing else; each chunk is its payload length, its type, its
\* payload and the CRC-32 of type + payload; the IHDR payload is width,
\* height, 8, 6, 0, 0, 0 (1290 and 2796 for the wallpaper); the IDAT payload
\* inflates to the scanlines.
C8_PngStructure ==
    PngDone =>
        LET out == fout.v
            ihdr == ChunkAt(out, 9)
        IN /\ SubSeq(out, 1, 8) = <<137, 80, 78, 71, 13, 10, 26, 10>>
           /\ ihdr.type = <<73, 72, 68, 82>> /\ ihdr.length = 13 /\ ChunkCrcOk(ihdr)
           /\ BigEndian32(ihdr.payload, 1) = fin.width
           /\ BigEndian32(ihdr.payload, 5) = fin.height
           /\ SubSeq(ihdr.payload, 9, 13) = <<8, 6, 0, 0, 0>>
           /\ IF fin.t = "png_head"
              THEN /\ ihdr.payload = <<0, 0, 5, 10, 0, 0, 10, 236, 8, 6, 0, 0, 0>>
                   /\ ihdr.crc = <<152, 8, 196, 46>>
                   /\ ihdr.next = Len(out) + 1
              ELSE LET idat == ChunkAt(out, ihdr.next)
                       iend == ChunkAt(out, idat.next)
                   IN /\ idat.type = <<73, 68, 65, 84>> /\ ChunkCrcOk(idat)
                      /\ Inflate(idat.payload)
                             = ExpectedScanlines(fin.width, fin.height, fin.rgba)
                      /\ iend.type = <<73, 69, 78, 68>> /\ iend.length = 0
                      /\ ChunkCrcOk(iend) /\ iend.crc = <<174, 66, 96, 130>>
                      /\ iend.next = Len(out) + 1

\* A 2 x 2 buffer encoded: 8 + 25 + 41 + 12 bytes, two scanlines of 9
\* bytes in the IDAT chunk.
C8_Witness ==
    /\ PngDone /\ fin.t = "png" /\ fin.width = 2 /\ fin.height = 2
    /\ Len(fout.v) = 86
    /\ Len(Inflate(ChunkAt(fout.v, 34).payload)) = 18
    /\ fin.rgba[1] # fin.rgba[5]

(***************************************************************************)
(* Properties of the wallpaper cache (SpecCache).                          *)
(***************************************************************************)
\* The sets and invalidates of the user of call i that came before it.
WritesBefore(i) ==
    { j \in 1..(i - 1) : /\ calls[j].user_id = calls[i].user_id
                         /\ calls[j].op \in {"set", "invalidate"} }

\* What the history says the get at position i must return.
ExpectedOfGet(i) ==
    IF WritesBefore(i) = {} THEN PyNone
    ELSE LET last == calls[SetMax(WritesBefore(i))]
         IN IF /\ last.op = "set"
               /\ last.source_revision = calls[i].source_revision
               /\ last.today = calls[i].today
            THEN last.png_bytes ELSE PyNone

\* C10: get_cached_wallpaper(user, revision) returns the bytes of the most
\* recent set_cached_wallpaper of that user when that set was not followed by
\* an invalidate, stored exactly that revision and was made on the current
\* date; in every other case (no entry, another revision, another day,
\* invalidated) it returns None.
C10_GetReturnsLastSetOfRevisionAndDay ==
    \A i \in 1..Len(calls) :
        calls[i].op = "get" => calls[i].result = ExpectedOfGet(i)

\* A set, a get of the same user and revision on the same day that returns the
\* stored bytes, and the same get on a later day that returns None.
C10_Witness ==
    /\ Len(calls) = 3
    /\ calls[1].op = "set" /\ calls[2].op = "get" /\ calls[3].op = "get"
    /\ calls[2].result = calls[1].png_bytes
    /\ calls[3].user_id = calls[1].user_id
    /\ calls[3].source_revision = calls[1].source_revision
    /\ calls[3].today # calls[1].today
    /\ calls[3].result = PyNone

(***************************************************************************)
(* Properties of the wallpaper service (SpecService).                      *)
(***************************************************************************)
\* The moods a render of the year of today paints.
MoodsOfYear(moods, today) ==
    { <<d, moods[d].level>> : d \in { k \in DOMAIN moods : k[1] = today[1] } }

\* The image of an answered GET /w/{token} was rendered from a theme and
\* from moods that were the user's at or after the last update completed
\* before the request.
ServedCurrent(w) ==
    LET image == wreq[w].response.v
    IN \E a, b \in wreq[w].since .. Len(hist) :
          /\ image.theme = hist[a].theme
          /\ MoodsOfYear(image.moods, image.today) = MoodsOfYear(hist[b].moods, image.today)

\* C9: after an update of a user has completed, every later GET /w/{token}
\* of that user returns an image rendered from the updated theme and moods,
\* under every interleaving of wallpaper requests with updates.
C9_LaterGetServesUpdatedData ==
    \A w \in WallpaperIds : wreq[w].pc = "done" => ServedCurrent(w)

\* C11: whenever GET /w/{token} returns cached bytes on day D, those bytes
\* were rendered with target date D, also when the date changes between the
\* render and set_cached_wallpaper.
C11_CachedBytesRenderedForServingDay ==
    \A w \in WallpaperIds :
        (wreq[w].pc = "done" /\ wreq[w].from_cache)
            => wreq[w].response.v.today = wreq[w].served_on

\* C12: of the GET /w/{token} requests of a user at the same revision on the
\* same day at most one executes render_wallpaper_png; every other one is
\* answered from the cache.
C12_AtMostOneRenderPerRevisionAndDay ==
    \A w, x \in WallpaperIds :
        ( /\ w # x
          /\ wreq[w].pc = "done" /\ wreq[x].pc = "done"
          /\ wreq[w].source_revision = wreq[x].source_revision
          /\ wreq[w].response.v.today = wreq[x].response.v.today )
            => (wreq[w].from_cache \/ wreq[x].from_cache)

(***************************************************************************)
(* Properties of the preview (SpecPreview).                                *)
(***************************************************************************)
\* The text of the first of two query keys that is present, or None.
QueryText(query, key, other_key) ==
    IF key \in DOMAIN query THEN query[key]
    ELSE IF other_key \in DOMAIN query THEN query[other_key]
    ELSE PyNone

\* The stored theme with the query's columns and avoid flag in place of its
\* own where the query gives a valid one, and nothing else of the query.
OverriddenTheme(stored, query) ==
    LET columns_text == QueryText(query, "columns", "gridColumns")
        avoid_text == QueryText(query, "avoid_lock_screen_ui", "avoidLockScreenUi")
    IN [stored EXCEPT
          !.columns = IF columns_text = PyNone THEN @
                      ELSE normalize_theme_columns(columns_text, @),
          !.avoid_lock_screen_ui =
              IF avoid_text = PyNone THEN @
              ELSE normalize_theme_avoid_lock_screen_ui(avoid_text, @)]

\* What GET /w/{token} renders when no preview has ever been made.
StoredWallpaper == render_wallpaper_png(hist[1].theme, hist[1].moods, procDate)

\* C13: GET /w/{token}/preview renders the stored theme with only the
\* columns and the avoid flag of the query applied, and leaves the stored
\* theme, the revision marker and the wallpaper cache as they are: after any
\* number of previews GET /theme and GET /w/{token} return what they return
\* without them.
C13_PreviewOverridesWithoutPersisting ==
    /\ db.updated_at = now_iso(0)
    /\ theme_from_row(db.theme) = hist[1].theme /\ db.moods = hist[1].moods
    /\ \A user_id \in UserIds :
           cache[user_id] # PyNone =>
               /\ user_id = ServiceUser
               /\ cache[user_id].png_bytes = StoredWallpaper
               /\ cache[user_id].cached_revision = db.updated_at
    /\ \A v \in PreviewIds :
           wreq[v].pc = "done" =>
               wreq[v].response =
                   render_wallpaper_png(OverriddenTheme(hist[1].theme, wreq[v].query),
                                        hist[1].moods, procDate)
    /\ \A g \in ThemeGetIds :
           wreq[g].pc = "done" => wreq[g].response = serialize_theme(hist[1].theme)
    /\ \A w \in WallpaperIds :
           wreq[w].pc = "done" => wreq[w].response = StoredWallpaper

\* A preview with columns=7&shape=square of a stored theme with 18 columns
\* and the rounded shape has answered with 7 columns and the rounded shape,
\* GET /theme has answered with 18 columns and a GET /w/{token} has rendered
\* 18 columns.
C13_Witness ==
    /\ hist[1].theme.columns = 18
    /\ \E v \in PreviewIds :
           /\ wreq[v].pc = "done"
           /\ "shape" \in DOMAIN wreq[v].query
           /\ wreq[v].response.v.theme.columns = 7
           /\ wreq[v].response.v.theme.shape = "rounded"
    /\ \E g \in ThemeGetIds : wreq[g].pc = "done" /\ wreq[g].response.columns = 18
    /\ \E w \in WallpaperIds :
           /\ wreq[w].pc = "done" /\ ~wreq[w].from_cache
           /\ wreq[w].response.v.theme.columns = 18

(***************************************************************************)
(* Properties of apply_theme_patch (SpecPatch).                            *)
(***************************************************************************)
PatchDone == fin.t = "patch"

\* The payload's value for a field: that of its first key when present,
\* else that of its second key, else missing.
PayloadValue(key, other_key) ==
    PyGet(fin.payload, key, PyGet(fin.payload, other_key, PyMissing))

\* The colours of the mood_colors object the patch reads, when it is one.
PayloadMoodColors ==
    IF PyGet(fin.payload, "mood_colors", PyNone).t = "dict" THEN fin.payload["mood_colors"].v
    ELSE IF PyGet(fin.payload, "moodColors", PyNone).t = "dict"
    THEN fin.payload["moodColors"].v
    ELSE << >>

\* C14: apply_theme_patch on a valid current theme leaves a field equal to
\* its current value whenever the payload value for that field is invalid:
\* columns outside [7,31] or not an integer, a shape, spacing or position
\* outside its enumeration, an unparsable colour, an unrecognised
\* avoid_lock_screen_ui value.
C14_InvalidValueKeepsField ==
    PatchDone =>
        /\ PayloadValue("columns", "gridColumns") \in BadColumns
               => fout.columns = fin.current_theme.columns
        /\ PayloadValue("shape", "shape") \in BadWords
               => fout.shape = fin.current_theme.shape
        /\ PayloadValue("spacing", "spacing") \in BadWords
               => fout.spacing = fin.current_theme.spacing
        /\ PayloadValue("position", "position") \in BadWords \cup {PyStr("top")}
               => fout.position = fin.current_theme.position
        /\ PayloadValue("bg_color", "bgColor") \in BadColours \cup {PyNone}
               => fout.bg_color = fin.current_theme.bg_color
        /\ PayloadValue("empty_color", "emptyColor") \in BadColours
               => fout.empty_color = fin.current_theme.empty_color
        /\ PayloadValue("avoid_lock_screen_ui", "avoidLockScreenUi") \in BadAvoids \cup {PyInt(2)}
               => fout.avoid_lock_screen_ui = fin.current_theme.avoid_lock_screen_ui
        /\ \A level \in DOMAIN PayloadMoodColors :
               PayloadMoodColors[level] \in BadColours
                   => fout.mood_colors[level] = fin.current_theme.mood_colors[level]

\* columns 100 on a theme with 18 columns has given 18.
C14_Witness ==
    /\ PatchDone
    /\ fin.current_theme.columns = 18
    /\ fin.payload = ("columns" :> PyInt(100))
    /\ fout.columns = 18

\* A colour in the normal form "#rrggbb" with lower-case hexadecimal digits.
IsNormalisedColour(value) ==
    /\ value.t = "str"
    /\ Len(value.v) = 7
    /\ value.v[1] = "#"
    /\ \A i \in 2..7 : \E d \in 1..16 : value.v[i] = HexDigits[d]

\* C15: starting from the default theme, after any sequence of
\* apply_theme_patch calls the theme satisfies its data-model invariants:
\* columns is an integer in [7,31], mood_colors has the five levels, each a
\* normalised colour, bg_color is a normalised colour, empty_color is None
\* or a normalised colour, shape, spacing and position are in their
\* enumerations and avoid_lock_screen_ui is a boolean.
C15_PatchedThemeKeepsInvariants ==
    fin.t \in {"patch_start", "patch"} =>
        /\ fout.columns \in MinColumns..MaxColumns
        /\ DOMAIN fout.mood_colors = 1..5
        /\ \A level \in 1..5 : IsNormalisedColour(fout.mood_colors[level])
        /\ IsNormalisedColour(fout.bg_color)
        /\ fout.empty_color = PyNone \/ IsNormalisedColour(fout.empty_color)
        /\ fout.shape \in {"rounded", "square", "rough"}
        /\ fout.spacing \in {"tight", "medium", "wide"}
        /\ fout.position \in {"clock", "center"}
        /\ fout.avoid_lock_screen_ui \in BOOLEAN

\* A patched theme received a colour written in upper case and holds it in
\* lower case.
C15_Witness ==
    /\ PatchDone
    /\ fin.current_theme # DEFAULT_THEME
    /\ PayloadValue("bg_color", "bgColor") = WhiteText
    /\ fout.bg_color = PyStr(<<"#", "f", "f", "f", "f", "f", "f">>)

\* The normal form of the valid colours among the payload values, and
\* PyMissing for every other value.
SampleNormalForm(value) ==
    IF value = WhiteText THEN PyStr(<<"#", "f", "f", "f", "f", "f", "f">>)
    ELSE IF value = BareText THEN PyStr(<<"#", "a", "b", "c", "d", "e", "f">>)
    ELSE PyMissing

\* The empty colour the rule of the specification gives for the call.
RuledEmptyColor ==
    LET bg == SampleNormalForm(PayloadValue("bg_color", "bgColor"))
        source == PayloadValue("empty_color", "emptyColor")
    IN IF source = PyMissing
       THEN IF bg # PyMissing THEN PyNone ELSE fin.current_theme.empty_color
       ELSE IF source = PyNone THEN PyNone
       ELSE IF SampleNormalForm(source) # PyMissing THEN SampleNormalForm(source)
       ELSE fin.current_theme.empty_color

\* C16: apply_theme_patch resets empty_color to None exactly when the
\* payload supplies a valid background colour without any empty-colour key
\* or supplies an explicit null empty colour; it sets empty_color to the
\* normalised value when a valid empty colour is supplied, also together
\* with a background change; in every other case the existing empty_color
\* is kept.
C16_EmptyColorFollowsTheRule ==
    PatchDone => fout.empty_color = RuledEmptyColor

\* A theme with an explicit empty colour received a valid background colour
\* without an empty-colour key and has an auto-derived empty colour again.
C16_Witness ==
    /\ PatchDone
    /\ fin.current_theme.empty_color = PyStr(<<"#", "a", "b", "c", "d", "e", "f">>)
    /\ fin.payload = ("bg_color" :> WhiteText)
    /\ fout.empty_color = PyNone
    /\ fout.bg_color = PyStr(<<"#", "f", "f", "f", "f", "f", "f">>)

(***************************************************************************)
(* Properties of the gap and of the dot size for dense grids.              *)
(***************************************************************************)
GapDone == fin.t = "gap" /\ fout # NoValue

\* The gap of the spacing table, written out.
TableGap == IF fin.spacing = "tight" THEN 2 ELSE IF fin.spacing = "wide" THEN 6 ELSE 4

\* One unit per five whole columns beyond 20, at most two.
RuledReduction == IF fin.columns < 25 THEN 0 ELSE IF fin.columns < 30 THEN 1 ELSE 2

\* C17: for a fixed spacing resolve_effective_gap is non-increasing in
\* columns over 7..31, equals the table value tight 2 / medium 4 / wide 6
\* while no reduction applies, is reduced by one per 5 columns beyond 20 and
\* by at most 2, and is never below 1; 31 columns give 1 / 2 / 4.
C17_GapShrinksWithColumnsToAFloor ==
    GapDone =>
        /\ \A more \in fin.columns..MaxColumns :
               resolve_effective_gap(fin.spacing, more) <= fout.v
        /\ fout.v >= 1
        /\ RuledReduction = 0 => fout.v = TableGap
        /\ fout.v = (IF TableGap - RuledReduction < 1 THEN 1 ELSE TableGap - RuledReduction)
        /\ TableGap - fout.v <= 2
        /\ fin.columns = 31 /\ fin.spacing = "tight" => fout.v = 1
        /\ fin.columns = 31 /\ fin.spacing = "medium" => fout.v = 2
        /\ fin.columns = 31 /\ fin.spacing = "wide" => fout.v = 4

\* The tight gap of 30 columns, where the floor cuts the reduction short.
C17_Witness ==
    GapDone /\ fin.spacing = "tight" /\ fin.columns = 30 /\ fout.v = 1

\* C18: for a fixed slot size and spacing resolve_dot_size is
\* non-decreasing in columns over 7..31; the dot at 31 columns is at least
\* the dot at 14 columns, and strictly larger for slot size 30 with medium
\* spacing.
C18_DotGrowsWithColumns ==
    DotDone =>
        /\ \A more \in fin.columns..MaxColumns :
               fout.v <= resolve_dot_size(fin.slot_size, fin.spacing, more)
        /\ fin.columns = 14
               => fout.v <= resolve_dot_size(fin.slot_size, fin.spacing, 31)
        /\ fin.columns = 14 /\ fin.slot_size = 30 /\ fin.spacing = "medium"
               => fout.v < resolve_dot_size(30, "medium", 31)

\* Slot size 30 with medium spacing at 31 columns: 26 pixels, against 24 at
\* 14 columns.
C18_Witness ==
    /\ DotDone /\ fin.slot_size = 30 /\ fin.spacing = "medium" /\ fin.columns = 31
    /\ fout.v = 26
    /\ resolve_dot_size(30, "medium", 14) = 24

(***************************************************************************)
(* Properties of the rate limiter (SpecLimiter).  The time of a call is    *)
(* the time check() reads for it and stores in the deque.                  *)
(***************************************************************************)
\* The allowed calls of the key whose time lies in the window that ends at
\* time `end`.
AllowedInWindow(key, end) ==
    { i \in 1..Len(hist) :
        /\ hist[i].key = key /\ hist[i].allowed
        /\ hist[i].now > end - fin.window_seconds /\ hist[i].now <= end }

WindowKeepsLimit ==
    \A key \in LimiterKeys, end \in 0..MaxMonotonic :
        Cardinality(AllowedInWindow(key, end)) <= fin.limit

DeniedTellsWhenToRetry ==
    \A i \in 1..Len(hist) :
        IF hist[i].allowed THEN hist[i].retry_after_seconds = PyNone
        ELSE hist[i].retry_after_seconds.t = "int" /\ hist[i].retry_after_seconds.v >= 1

BlockDeniesEveryCheck ==
    \A i, j \in 1..Len(hist) :
        /\ hist[i].blocking /\ hist[j].key = hist[i].key /\ i < j
        /\ hist[j].now >= hist[i].now /\ hist[j].now < hist[i].now + fin.block_seconds
        => ~hist[j].allowed

\* C19: for each key check allows at most `limit` calls within any sliding
\* window of window_seconds, also when checks for the key run concurrently;
\* the call that would exceed the limit is denied with retry_after_seconds
\* >= 1 and starts a block of block_seconds during which every check for
\* that key is denied.
C19_LimitHoldsInEveryWindow ==
    fin.t = "limiter" => WindowKeepsLimit /\ DeniedTellsWhenToRetry /\ BlockDeniesEveryCheck

(***************************************************************************)
(* Properties of the session rotation (SpecSession).  hist[i] is the i-th  *)
(* answered request; a request began after it when its `since` is >= i.    *)
(***************************************************************************)
\* The answered request presented a live session that is not the dev
\* session, on a route that leaves rotation on, at an age of at least the
\* rotate interval.
DueForRotation(i) ==
    /\ hist[i].row # NoValue
    /\ hist[i].row.expires_at.t = "iso"
    /\ hist[i].row.expires_at.at > hist[i].now_utc
    /\ hist[i].token # fin.dev_bearer_token
    /\ hist[i].route = "GET /theme"
    /\ hist[i].now_utc - hist[i].row.created_at.at >= fin.session_rotate_interval_seconds

\* The token was rotated away or signed out by a request answered among
\* the first `count` requests.
EndedWithin(token, count) ==
    \E k \in 1..count :
        /\ hist[k].token = token
        /\ hist[k].session_token # PyNone \/ hist[k].status = 204

\* C20: when an authenticated request presents a non-dev session token
\* whose age is at least the rotate interval, on a route that does not
\* disable rotation, the request succeeds and its response carries a new
\* token in X-Session-Token with X-Session-Expires-At; from then on the old
\* token is rejected with 401 and the new token authenticates (until it
\* expires or is itself rotated or signed out).
C20_RotationReplacesTheToken ==
    fin.t = "session" =>
        \A i \in 1..Len(hist) :
            DueForRotation(i) =>
                /\ hist[i].status = 200
                /\ hist[i].session_token.t = "str"
                /\ hist[i].session_token.v # hist[i].token
                /\ hist[i].session_expires_at.t = "int"
                /\ hist[i].session_expires_at.v > hist[i].now_utc
                /\ \A j \in 1..Len(hist) :
                       hist[j].since >= i =>
                           /\ hist[j].token = hist[i].token => hist[j].status = 401
                           /\ /\ hist[j].token = hist[i].session_token.v
                              /\ hist[j].status = 401
                              => \/ /\ hist[j].row # NoValue
                                    /\ hist[j].row.expires_at.at <= hist[j].now_utc
                                 \/ EndedWithin(hist[j].token, hist[j].since)

\* A rotation, then the old token refused and the new token accepted.
C20_Witness ==
    /\ fin.t = "session"
    /\ Len(hist) = 3
    /\ DueForRotation(1)
    /\ hist[1].session_token = PyStr("n1")
    /\ hist[2].since >= 1 /\ hist[2].token = "s0" /\ hist[2].status = 401
    /\ hist[3].since >= 1 /\ hist[3].token = "n1" /\ hist[3].status = 200

(***************************************************************************)
(* Properties of expired sessions (SpecSession).                           *)
(***************************************************************************)
ExpiredDetail == "Session expired. Sign in again."

\* The answered request read a session row whose expires_at is not a time
\* or is at or before the time the request read.
PresentedExpired(i) ==
    /\ hist[i].row # NoValue
    /\ \/ hist[i].row.expires_at.t # "iso"
       \/ hist[i].row.expires_at.at <= hist[i].now_utc

\* The step answers a request with the 401 of an expired session.
AnswersExpired ==
    /\ Len(hist') = Len(hist) + 1
    /\ hist'[Len(hist')].detail = ExpiredDetail

\* C21: a request whose session has expires_at at or before the current
\* time, or an unparsable expires_at, is rejected with 401 'Session expired.
\* Sign in again.', and the step that rejects it performs nothing of the
\* route: no row of the user and no revision changes.
C21_ExpiredSessionIsRejectedUnserved ==
    /\ [](fin.t = "session" =>
              \A i \in 1..Len(hist) :
                  PresentedExpired(i) =>
                      hist[i].status = 401 /\ hist[i].detail = ExpiredDetail)
    /\ [][AnswersExpired => db' = db]_vars

\* An unparsable expires_at and an expires_at in the past were both refused
\* on routes that write, and the revision of the user is that of the start.
C21_Witness ==
    /\ fin.t = "session"
    /\ \E i, j \in 1..Len(hist) :
           /\ hist[i].token = "sx" /\ hist[i].route = "DELETE /auth/session"
           /\ hist[i].status = 401 /\ hist[i].detail = ExpiredDetail
           /\ hist[j].token = "s0" /\ hist[j].route = "POST /auth/session/refresh"
           /\ hist[j].now_utc >= 3
           /\ hist[j].status = 401 /\ hist[j].detail = ExpiredDetail
    /\ db.updated_at = now_iso(0)
    /\ {"s0", "sx"} \subseteq DOMAIN db.sessions

\* C30: after a request bearing an expired session token has been rejected
\* by require_auth, that session's row is no longer in the sessions table
\* once the request has finished.
C30_ExpiredSessionRowIsGone ==
    fin.t = "session" =>
        \A i \in 1..Len(hist) :
            hist[i].detail = ExpiredDetail => hist[i].token \notin DOMAIN db.sessions


\* The dev session as ensure_dev_session left it at the start.
DevSessionAtStart ==
    create_session(<< >>, DevToken, ServiceUser, 0, fin.session_ttl_seconds)[DevToken]

\* Request i presented the dev bearer token and its session was alive.
DevServed(i) == hist[i].token = DevToken /\ hist[i].detail # ExpiredDetail

\* Request i signed a session other than the dev session out.
SignedOut(i) ==
    /\ hist[i].route = "DELETE /auth/session" /\ hist[i].status = 204
    /\ hist[i].token # DevToken

Successors(token) ==
    { hist[i].session_token.v :
          i \in { n \in 1..Len(hist) :
                      /\ hist[n].token = token /\ hist[n].route = "GET /theme"
                      /\ hist[n].session_token # PyNone } }
        \cap DOMAIN db.sessions

\* C29: a session token is replaced by at most one successor: of the new
\* tokens that requests presenting the same rotation-due token were given,
\* at most one is a live session.
C29_AtMostOneSuccessor ==
    fin.t = "session" => \A token \in PresentedTokens : Cardinality(Successors(token)) <= 1


(***************************************************************************)
(* Properties of the wallpaper tokens (SpecToken).                         *)
(***************************************************************************)
\* Answer i is a rotation that gave its user a token other than the old.
Rotated(i) ==
    /\ hist[i].op = "rotate" /\ hist[i].status = 200
    /\ hist[i].token # hist[i].old_token

\* No sign-in and no rotation was committed between the answers i and j.
NoWriteBetween(i, j) ==
    \A k \in (i + 1)..(j - 1) : hist[k].op = "wallpaper" \/ hist[k].status # 200

\* C22: after POST /token/rotate gave a user a new wallpaper token,
\* GET /w/{old_token} answers 404 and GET /w/{new_token} answers with that
\* user's wallpaper; after any sequence of sign-ins and rotations every user
\* has one wallpaper token and no wallpaper token is the token of two users.
C22_RotationMovesTheWallpaper ==
    fin.t = "token" =>
        /\ \A token \in TokenPool : Cardinality(users_with_token(db.users, token)) <= 1
        /\ \A user_id \in DOMAIN db.users : db.users[user_id].wallpaper_token \in TokenPool
        /\ \A i, j \in 1..Len(hist) :
               (Rotated(i) /\ i < j /\ hist[j].op = "wallpaper" /\ NoWriteBetween(i, j))
                   => /\ hist[j].token = hist[i].old_token => hist[j].status = 404
                      /\ hist[j].token = hist[i].token =>
                             hist[j].status = 200 /\ hist[j].user_id = hist[i].user_id

\* Two users; a rotation whose first draw was the other user's token and
\* was refused; then the old token asked for and not found.
C22_Witness ==
    /\ fin.t = "token"
    /\ Cardinality(DOMAIN db.users) = 2
    /\ \E i, j \in 1..Len(hist) :
           /\ Rotated(i) /\ hist[i].refused /\ i < j /\ NoWriteBetween(i, j)
           /\ hist[j].op = "wallpaper" /\ hist[j].token = hist[i].old_token
           /\ hist[j].status = 404


(***************************************************************************)
(* Properties of the day loop (SpecPlace).                                 *)
(***************************************************************************)
PlaceDone == fin.t = "place" /\ fout # NoValue

\* The calendar days of a year.
CalendarDays(year) ==
    {<<year, month, day>> : month \in 1..12, day \in 1..31} \cap
        {date \in {year} \X (1..12) \X (1..31) : date[3] <= MonthLength(year, date[2])}

\* The weekday of January 1 counted from Sunday, from Monday 1 January 2024
\* and the lengths of the years since.
RECURSIVE SundayOrigin(_)
SundayOrigin(year) ==
    IF year = 2024 THEN 1 ELSE (SundayOrigin(year - 1) + days_in_year(year - 1)) % 7

\* ceil(n / d)
CeilDiv(n, d) == CHOOSE q \in 0..n : q * d >= n /\ (q - 1) * d < n

\* Lines (columns or rows) of the grid, each with the one coordinate its
\* dots start at: dots of two lines have no coordinate in common.
Apart(lines, size) ==
    \A a, b \in lines :
        IF a[1] = b[1] THEN a[2] = b[2]
        ELSE a[2] + size <= b[2] \/ b[2] + size <= a[2]

\* C24: every calendar day of the year is painted exactly once; day i goes
\* to slot i + offset, offset the Sunday-origin weekday of January 1, at
\* column slot mod columns and row slot div columns, with row < rows =
\* ceil((days_in_year + offset) / columns); no two days share a cell, no two
\* dots' rectangles overlap (two days differ in column or in row, and the
\* dots of two columns share no x, those of two rows no y), and the loop
\* paints exactly days_in_year dots.
C24_EachDayPaintedOnceInItsSlot ==
    PlaceDone =>
        LET painted == fout.painted
            days == Len(painted)
            offset == SundayOrigin(fin.year)
            rows == CeilDiv(days_in_year(fin.year) + offset, fin.columns)
            size == fout.lay.dot_size
            cells == {<<painted[n].cell.col_index, painted[n].cell.row_index>> :
                          n \in 1..days}
            columns == {<<painted[n].cell.col_index, painted[n].cell.x>> : n \in 1..days}
            rws == {<<painted[n].cell.row_index, painted[n].cell.y>> : n \in 1..days}
        IN /\ days = days_in_year(fin.year)
           /\ {painted[n].date_key : n \in 1..days} = CalendarDays(fin.year)
           /\ Cardinality(CalendarDays(fin.year)) = days
           /\ fout.lay.grid_rows = rows
           /\ \A n \in 1..days :
                  /\ painted[n].cell.col_index = (n - 1 + offset) % fin.columns
                  /\ painted[n].cell.row_index = (n - 1 + offset) \div fin.columns
                  /\ painted[n].cell.row_index < rows
           /\ \A n \in 1..days : painted[n].size = size
           /\ Cardinality(cells) = days
           /\ Apart(columns, size) /\ Apart(rws, size)

\* A leap year that begins on a Saturday, seven columns: the last day is in
\* the last row, the 54th.
C24_Witness ==
    /\ PlaceDone /\ fin.columns = 7
    /\ Len(fout.painted) = 366
    /\ fout.painted[1].cell.col_index = 6
    /\ fout.painted[366].cell.row_index = 53
    /\ fout.lay.grid_rows = 54


(***************************************************************************)
(* Properties of the derived empty colour (SpecEmpty).                     *)
(***************************************************************************)
EmptyDone == fin.t = "empty" /\ fout # NoValue

\* C25: for every background colour derive_empty_color(bg) differs from bg
\* in at least one channel.
C25_EmptyColorDiffersFromBackground ==
    EmptyDone => \E channel \in 1..3 : fout[channel] # fin.bg_rgb[channel]

\* A light background with two channels so low that darkening leaves them
\* alone: the derived colour differs in the third channel only.
C25_Witness ==
    /\ EmptyDone /\ ~LuminanceBelow128(fin.bg_rgb)
    /\ fout[1] = fin.bg_rgb[1] /\ fout[3] = fin.bg_rgb[3]
    /\ fout[2] < fin.bg_rgb[2]


(***************************************************************************)
(* Properties of the corner radius (SpecRadius).                           *)
(***************************************************************************)
RadiusDone == fin.t = "radius" /\ fout # NoValue

\* C26 (as amended): the corner radius is 0 when shape is square and
\* otherwise the larger of 1 and dot_size * 0.24 with its fraction cut off,
\* for every dot size the layout produces; every shape other than 'square'
\* (rounded, rough, missing or unknown) gets this radius.
C26_CornerRadiusIsCutOff ==
    RadiusDone =>
        IF fin.shape = "square" THEN fout.radius = 0
        ELSE /\ fout.radius >= 1
             /\ \/ fout.radius = 1 /\ 24 * fout.dot_size < 200
                \/ /\ 100 * fout.radius <= 24 * fout.dot_size
                   /\ 24 * fout.dot_size < 100 * (fout.radius + 1)

\* A theme without a shape whose dot size times 0.24 has a fraction above
\* one half: the radius is one less than the nearest whole number.
C26_Witness ==
    /\ RadiusDone /\ fin.shape = "None"
    /\ (24 * fout.dot_size) % 100 > 50
    /\ fout.radius = RoundHalfEven(24 * fout.dot_size, 100) - 1

\* C26 as written: the radius is 0 for square and otherwise
\* max(1, round(dot_size * 0.24)).
C26_CornerRadiusIsRounded ==
    RadiusDone =>
        fout.radius = IF fin.shape = "square" THEN 0
                      ELSE Max(1, RoundHalfEven(24 * fout.dot_size, 100))


(***************************************************************************)
(* Properties of the stored theme (SpecThemeStore).                        *)
(***************************************************************************)
\* C27: the theme that PUT /theme returns equals the theme that the next
\* GET /theme of the user returns, for every payload, shape 'rough'
\* included.
C27_PutReportsWhatIsStored ==
    (fin.t = "theme_store" /\ Len(hist) = 2) => hist[2].response = hist[1].response


(***************************************************************************)
(* Properties of denied checks (SpecLimiter, SpecLimiterSerial).           *)
(***************************************************************************)
\* A step in which a check ran its body under the lock; its entry is the
\* last of the history after the step.
CheckAnswered == Len(hist') = Len(hist) + 1

\* The request times of the key that are inside the window of a check that
\* read `now`.
TimesInWindow(key, now) ==
    { n \in 1..Len(rate_limiter.requests[key]) :
          rate_limiter.requests[key][n] > now - fin.window_seconds }

\* A denied check leaves the request times as they were, and the blocks too
\* unless it starts one for its key.
DeniedChangesOnlyTheBlock ==
    LET check == hist'[Len(hist')]
    IN (CheckAnswered /\ ~check.allowed) =>
           /\ rate_limiter'.requests = rate_limiter.requests
           /\ IF check.blocking
              THEN rate_limiter'.blocked_until =
                       [rate_limiter.blocked_until EXCEPT
                            ![check.key] = check.now + fin.block_seconds]
              ELSE rate_limiter' = rate_limiter

\* A check made during a block leaves the block as it is.
BlockIsNotExtended ==
    LET check == hist'[Len(hist')]
    IN (CheckAnswered /\ rate_limiter.blocked_until[check.key] > check.now) =>
           /\ ~check.allowed
           /\ rate_limiter'.blocked_until = rate_limiter.blocked_until

\* A check made when the block of its key has passed and fewer than `limit`
\* request times are inside its window is allowed.
AllowedAgain ==
    LET check == hist'[Len(hist')]
    IN ( /\ CheckAnswered
         /\ rate_limiter.blocked_until[check.key] <= check.now
         /\ Cardinality(TimesInWindow(check.key, check.now)) < fin.limit )
           => check.allowed

\* C28: a denied check changes nothing but possibly starting a block: it is
\* not recorded in the request times of the key and a check during a block
\* does not extend the block; once blocked_until has passed and fewer than
\* `limit` allowed calls remain inside the window, the next check for the
\* key is allowed, however many denied checks came before it.
C28_DeniedChecksDoNotDelayTheKey ==
    [][fin.t = "limiter" =>
           DeniedChangesOnlyTheBlock /\ BlockIsNotExtended /\ AllowedAgain]_vars


====
